---- MODULE Spec2Model ----
(***************************************************************************)
(* Model of the GitHub metrics pipeline: the Airflow DAG                   *)
(* dags/github_metrics_dag.py, the collector github_metrics/collectors.py  *)
(* and the calculators of github_metrics/metrics.py.                       *)
(*                                                                         *)
(* Conventions                                                             *)
(*  - time is an integer number of ticks, TicksPerDay ticks to a day;      *)
(*  - a Python dict is a record, a list is a sequence, a DataFrame is the  *)
(*    sequence of its rows;                                                *)
(*  - a value rounded to two decimals is kept as an integer number of      *)
(*    hundredths, one rounded to three decimals as a number of thousandths;*)
(*  - a call that raises is the record [raised |-> <exception name>].      *)
(***************************************************************************)
EXTENDS Integers, Sequences, FiniteSets, TLC

\* ------------------------------------------------------------------- state
VARIABLES
    repositories,     \* Airflow Variable GITHUB_REPOSITORIES
    collection_days,  \* Airflow Variable METRICS_COLLECTION_DAYS
    fetch_fails,      \* data source: the fetch step that raises, per repository
    now,              \* the wall clock, datetime.now()
    run,              \* number of the current DAG run
    ts,               \* state of each task instance of the current run
    started,          \* the tasks of the current run in the order they started
    idx,              \* extract_github_data: position of the repository loop
    window,           \* extract_github_data: start_date and end_date
    all_data,         \* extract_github_data: the combined dataset being built
    attempted,        \* log: "Processing repository", one entry per iteration
    error_log,        \* log: "Failed to collect data from", loop positions
    xcom,             \* XCom values of the current run, by task and key
    latest_file,      \* latest_metrics.json
    dated_files,      \* github_metrics_<date>.json, by date
    run_reports,      \* the all_metrics XCom of every run so far
    charts,           \* chart files written, as <<chart name, date>>
    tables,           \* calculators: the data a caller constructs them over
    calls,            \* calculators: the calls made so far and their results
    instance          \* a calculator object: its class and the tables it holds

vars == <<repositories, collection_days, fetch_fails, now, run, ts, started, idx,
          window, all_data, attempted, error_log, xcom, latest_file, dated_files,
          run_reports, charts, tables, calls, instance>>

pipelineVars == <<repositories, collection_days, fetch_fails, run, ts, started, idx,
                  window, all_data, attempted, error_log, xcom, latest_file,
                  dated_files, run_reports, charts>>
calcVars == <<tables, calls, instance>>

\* ------------------------------------------------------------------ bounds
MaxRepos == 2
MaxTicks == 2
MaxRuns == 2
MaxPeriod == 3
MaxCollectionDays == 1
MaxRows == 2
MaxTime == 4
MaxDeployments == 3
MaxTimedPRs == 3
MaxPRs == 5
MaxRowsPerAuthor == 2

TicksPerDay == 2
HoursPerTick == 24 \div TicksPerDay

\* ----------------------------------------------------------------- helpers
EmptyDict == [k \in {} |-> 0]
None == [none |-> TRUE]
NaT == -1
NaN == -1

Range(s) == {s[i] : i \in 1..Len(s)}

SeqsUpTo(S, n) == UNION {[1..k -> S] : k \in 0..n}

RECURSIVE SeqSum(_)
SeqSum(s) == IF Len(s) = 0 THEN 0 ELSE Head(s) + SeqSum(Tail(s))

Raise(exc) == [raised |-> exc]
IsRaise(r) == "raised" \in DOMAIN r

\* round(num / den, 2) as hundredths, and round(num / den, 3) as thousandths:
\* Python rounds to the nearest, an exact tie to the even neighbour
RoundScaled(num, den, scale) ==
    LET q == (num * scale) \div den
        r == (num * scale) % den
    IN  IF 2 * r < den THEN q
        ELSE IF 2 * r > den THEN q + 1
        ELSE IF q % 2 = 0 THEN q ELSE q + 1

Round2(num, den) == RoundScaled(num, den, 100)
Round3(num, den) == RoundScaled(num, den, 1000)

\* a DataFrame built from a list of dicts
empty(df) == Len(df) = 0
Columns(df) == UNION {DOMAIN df[i] : i \in 1..Len(df)}

timedelta(days) == days * TicksPerDay
strftime_date(t) == t \div TicksPerDay

MaxClock == MaxTime + MaxTicks
MaxDate == strftime_date(MaxClock)

\* a timestamp comparison; a missing timestamp (NaT) compares False
InPeriod(t, start_date, end_date) ==
    t # NaT /\ t >= start_date /\ t <= end_date

\* ------------------------------------------------------------ data source
\* The GitHub API as the collector sees it: the repositories that exist and
\* the raw objects PyGithub yields for each, in the order it yields them.
Repos == {"org/a", "org/b"}
RepoNo(repo) == IF repo = "org/a" THEN 1 ELSE 2
NoLogin == "None"

FetchSteps == <<"info", "prs", "deployments", "issues", "commits">>
FailSteps == Range(FetchSteps) \cup {"none"}

RawPulls(repo) ==
    << [id |-> 10 * RepoNo(repo) + 1, number |-> 1, title |-> "pr", state |-> "closed",
        created_at |-> MaxTime, updated_at |-> MaxTime + 1, closed_at |-> MaxTime + 1, merged_at |-> MaxTime + 1,
        merged |-> TRUE, user |-> "alice", assignees |-> <<>>,
        requested_reviewers |-> <<"bob">>, labels |-> <<>>, additions |-> 3,
        deletions |-> 1, changed_files |-> 1, commits |-> 1, review_comments |-> 0,
        comments |-> 1, html_url |-> "url"] >>

RawDeployments(repo) ==
    << [id |-> 10 * RepoNo(repo) + 2, sha |-> "sha", ref |-> "main",
        environment |-> "production", description |-> "d", created_at |-> MaxTime,
        updated_at |-> MaxTime + 1, creator |-> "alice", statuses_url |-> "url", url |-> "url"] >>

RawIssues(repo) ==
    << [id |-> 10 * RepoNo(repo) + 3, number |-> 2, title |-> "bug", body |-> "b",
        state |-> "closed", created_at |-> MaxTime, updated_at |-> MaxTime + 1, closed_at |-> MaxTime + 1,
        user |-> "bob", assignees |-> <<>>, labels |-> <<"bug">>, comments |-> 0,
        html_url |-> "url", pull_request |-> FALSE],
       [id |-> 10 * RepoNo(repo) + 1, number |-> 1, title |-> "pr", body |-> "b",
        state |-> "closed", created_at |-> MaxTime, updated_at |-> MaxTime + 1, closed_at |-> MaxTime + 1,
        user |-> "alice", assignees |-> <<>>, labels |-> <<>>, comments |-> 1,
        html_url |-> "url", pull_request |-> TRUE] >>

RawCommits(repo) ==
    << [sha |-> 10 * RepoNo(repo) + 4, message |-> "m", author_name |-> "Alice",
        author_email |-> "a@x", author_login |-> "alice", committer_name |-> "Alice",
        committer_email |-> "a@x", authored_date |-> MaxTime, committed_date |-> MaxTime,
        additions |-> 3, deletions |-> 1, total |-> 4, files |-> 1,
        html_url |-> "url"] >>

\* --------------------------------------------------------------- collector
\* variant: a collector class that also defines get_repository_info
CollectorMethodsWithInfo ==
    {"get_repository_info", "get_repository", "collect_pull_requests",
     "_extract_pr_data", "collect_commits", "_extract_commit_data",
     "collect_issues", "_extract_issue_data", "collect_deployments",
     "_extract_deployment_data", "collect_all_data"}

\* the methods class GitHubCollector defines
CollectorMethods ==
    {"get_repository", "collect_pull_requests", "_extract_pr_data",
     "collect_commits", "_extract_commit_data", "collect_issues",
     "_extract_issue_data", "collect_deployments", "_extract_deployment_data",
     "collect_all_data"}

\* variant: the loop also stops at an object newer than until
RECURSIVE DateRangeLoop_stopping_at_newer(_, _, _, _, _, _)
DateRangeLoop_stopping_at_newer(raw, stamp, login, since, until, user_filter) ==
    IF Len(raw) = 0 THEN <<>>
    ELSE LET o == Head(raw)
             rest == DateRangeLoop_stopping_at_newer(Tail(raw), stamp, login, since, until, user_filter)
         IN  IF o[stamp] < since \/ o[stamp] > until THEN <<>>
             ELSE IF user_filter # {} /\ o[login] \notin user_filter THEN rest
             ELSE <<o>> \o rest

\* user_filter=None, and the empty list alike: `if user_filter:` is false
NoUserFilter == {}

\* the loop shared by collect_pull_requests, collect_issues and
\* collect_deployments: stop at the first object older than since, skip the
\* objects newer than until and the objects of users outside user_filter
RECURSIVE DateRangeLoop(_, _, _, _, _, _)
DateRangeLoop(raw, stamp, login, since, until, user_filter) ==
    IF Len(raw) = 0 THEN <<>>
    ELSE LET o == Head(raw)
             rest == DateRangeLoop(Tail(raw), stamp, login, since, until, user_filter)
         IN  IF o[stamp] < since THEN <<>>
             ELSE IF o[stamp] > until THEN rest
             ELSE IF user_filter # NoUserFilter /\ o[login] \notin user_filter THEN rest
             ELSE <<o>> \o rest

extract_pr_data(pr) ==
    [id |-> pr.id, number |-> pr.number, title |-> pr.title, state |-> pr.state,
     created_at |-> pr.created_at, updated_at |-> pr.updated_at,
     closed_at |-> pr.closed_at, merged_at |-> pr.merged_at, merged |-> pr.merged,
     author |-> pr.user, assignees |-> pr.assignees,
     reviewers |-> pr.requested_reviewers, labels |-> pr.labels,
     additions |-> pr.additions, deletions |-> pr.deletions,
     changed_files |-> pr.changed_files, commits_count |-> pr.commits,
     review_comments |-> pr.review_comments, issue_comments |-> pr.comments,
     total_comments |-> pr.review_comments + pr.comments,
     cycle_time_hours |->
        IF pr.closed_at # NaT /\ pr.created_at # NaT
        THEN (pr.closed_at - pr.created_at) * HoursPerTick ELSE NaN,
     url |-> pr.html_url]

extract_commit_data(commit) ==
    [sha |-> commit.sha, message |-> commit.message,
     author_name |-> commit.author_name, author_email |-> commit.author_email,
     author_login |-> commit.author_login, committer_name |-> commit.committer_name,
     committer_email |-> commit.committer_email,
     authored_date |-> commit.authored_date, committed_date |-> commit.committed_date,
     additions |-> commit.additions, deletions |-> commit.deletions,
     total_changes |-> commit.total, files_changed |-> commit.files,
     url |-> commit.html_url]

extract_issue_data(issue) ==
    [id |-> issue.id, number |-> issue.number, title |-> issue.title,
     body |-> issue.body, state |-> issue.state, created_at |-> issue.created_at,
     updated_at |-> issue.updated_at, closed_at |-> issue.closed_at,
     author |-> issue.user, assignees |-> issue.assignees, labels |-> issue.labels,
     comments |-> issue.comments,
     resolution_time_hours |->
        IF issue.closed_at # NaT /\ issue.created_at # NaT
        THEN (issue.closed_at - issue.created_at) * HoursPerTick ELSE NaN,
     url |-> issue.html_url]

extract_deployment_data(deployment) ==
    [id |-> deployment.id, sha |-> deployment.sha, ref |-> deployment.ref,
     environment |-> deployment.environment, description |-> deployment.description,
     created_at |-> deployment.created_at, updated_at |-> deployment.updated_at,
     creator |-> deployment.creator, statuses_url |-> deployment.statuses_url,
     url |-> deployment.url]

collect_pull_requests(raw, since, until, user_filter) ==
    LET kept == DateRangeLoop(raw, "updated_at", "user", since, until, user_filter)
    IN  [i \in 1..Len(kept) |-> extract_pr_data(kept[i])]

collect_commits(raw, since, until) ==
    LET kept == SelectSeq(raw, LAMBDA c : c.committed_date >= since /\ c.committed_date <= until)
    IN  [i \in 1..Len(kept) |-> extract_commit_data(kept[i])]

\* variant: pull requests are kept among the issues
collect_issues_with_pull_requests(raw, since, until, user_filter) ==
    LET kept == DateRangeLoop(raw, "updated_at", "user", since, until, user_filter)
    IN  [i \in 1..Len(kept) |-> extract_issue_data(kept[i])]

\* an issue that is a pull request is skipped before its date is looked at
collect_issues(raw, since, until, user_filter) ==
    LET issues == SelectSeq(raw, LAMBDA i : ~i.pull_request)
        kept == DateRangeLoop(issues, "updated_at", "user", since, until, user_filter)
    IN  [i \in 1..Len(kept) |-> extract_issue_data(kept[i])]

collect_deployments(raw, since, until, user_filter) ==
    LET kept == DateRangeLoop(raw, "created_at", "creator", since, until, user_filter)
    IN  [i \in 1..Len(kept) |-> extract_deployment_data(kept[i])]

\* ------------------------------------------------------------- statistics
\* pandas Series.mean / median / quantile (linear interpolation) of a
\* non-empty sequence of integers, each rounded to two decimals (hundredths)
Sorted(xs) == SortSeq(xs, LAMBDA a, b : a < b)

mean(xs) == IF Len(xs) = 0 THEN NaN ELSE Round2(SeqSum(xs), Len(xs))

median(xs) ==
    LET s == Sorted(xs)
        n == Len(xs)
    IN  IF n = 0 THEN NaN
        ELSE IF n % 2 = 1 THEN 100 * s[(n + 1) \div 2]
        ELSE Round2(s[n \div 2] + s[n \div 2 + 1], 2)

\* variant: nearest-rank percentile, no interpolation
quantile_nearest_rank(xs, pct) ==
    LET s == Sorted(xs)
        n == Len(xs)
    IN  IF n = 0 THEN NaN ELSE 100 * s[(n * pct + 99) \div 100]

\* variant: the percentile taken from the largest value downwards
quantile_from_largest(xs, pct) ==
    LET s == SortSeq(xs, LAMBDA a, b : a > b)
        n == Len(xs)
        pos == (n - 1) * pct
        lo == pos \div 100 + 1
        frac == pos % 100
    IN  IF n = 0 THEN NaN
        ELSE IF frac = 0 THEN 100 * s[lo]
        ELSE 100 * s[lo] + frac * (s[lo + 1] - s[lo])

quantile(xs, pct) ==
    LET s == Sorted(xs)
        n == Len(xs)
        pos == (n - 1) * pct
        lo == pos \div 100 + 1
        frac == pos % 100
    IN  IF n = 0 THEN NaN
        ELSE IF frac = 0 THEN 100 * s[lo]
        ELSE 100 * s[lo] + frac * (s[lo + 1] - s[lo])

Column(df, col) == [i \in 1..Len(df) |-> df[i][col]]

\* ------------------------------------------------------------ DORAMetrics
\* DORAMetrics.__init__: data.get(key, []) made a DataFrame
DataFrame(data, key) == IF key \in DOMAIN data THEN data[key] ELSE <<>>

\* variant: every deployment created up to now counts, whatever the period
deployment_frequency_without_start_date(deployments, period_days, now_) ==
    IF empty(deployments)
    THEN [deployments_per_day |-> 0, deployments_per_week |-> 0,
          total_deployments |-> 0, period_days |-> period_days]
    ELSE LET total_deployments ==
                Len(SelectSeq(deployments, LAMBDA d : d.created_at <= now_))
         IN  [deployments_per_day |-> Round2(total_deployments, period_days),
              deployments_per_week |-> Round2(total_deployments * 7, period_days),
              total_deployments |-> total_deployments,
              period_days |-> period_days]

\* variant: the weekly rate is seven times the rounded daily rate
deployment_frequency_week_of_rounded_day(deployments, period_days, now_) ==
    IF empty(deployments)
    THEN [deployments_per_day |-> 0, deployments_per_week |-> 0,
          total_deployments |-> 0, period_days |-> period_days]
    ELSE LET total_deployments ==
                Len(SelectSeq(deployments, LAMBDA d :
                        InPeriod(d.created_at, now_ - timedelta(period_days), now_)))
         IN  [deployments_per_day |-> Round2(total_deployments, period_days),
              deployments_per_week |-> 7 * Round2(total_deployments, period_days),
              total_deployments |-> total_deployments,
              period_days |-> period_days]

deployment_frequency(deployments, period_days, now_) ==
    IF empty(deployments)
    THEN [deployments_per_day |-> 0, deployments_per_week |-> 0,
          total_deployments |-> 0, period_days |-> period_days]
    ELSE IF "created_at" \notin Columns(deployments) THEN Raise("KeyError")
    ELSE LET end_date == now_
             start_date == end_date - timedelta(period_days)
             period_deployments ==
                SelectSeq(deployments, LAMBDA d : InPeriod(d.created_at, start_date, end_date))
             total_deployments == Len(period_deployments)
         IN  [deployments_per_day |->
                IF period_days > 0 THEN Round2(total_deployments, period_days) ELSE 0,
              deployments_per_week |->
                IF period_days > 0 THEN Round2(total_deployments * 7, period_days) ELSE 0,
              total_deployments |-> total_deployments,
              period_days |-> period_days]

LeadTimeZero ==
    [mean_lead_time_hours |-> 0, median_lead_time_hours |-> 0,
     p95_lead_time_hours |-> 0, total_merged_prs |-> 0]

\* variant: lead time over the pull requests merged in the collection
\* period only, as deployment_frequency filters its deployments
lead_time_in_period(pull_requests) ==
    IF empty(pull_requests) THEN LeadTimeZero
    ELSE LET merged_prs ==
                SelectSeq(pull_requests, LAMBDA p :
                    /\ p.merged = TRUE
                    /\ p.cycle_time_hours # NaN
                    /\ InPeriod(p.merged_at, now - timedelta(collection_days), now))
             lead_times == Column(merged_prs, "cycle_time_hours")
         IN  IF empty(merged_prs) THEN LeadTimeZero
             ELSE [mean_lead_time_hours |-> mean(lead_times),
                   median_lead_time_hours |-> median(lead_times),
                   p95_lead_time_hours |-> quantile(lead_times, 95),
                   total_merged_prs |-> Len(merged_prs)]

\* variant: lead time over every pull request with a cycle time, merged or not
lead_time_of_all_pull_requests(pull_requests) ==
    IF empty(pull_requests) THEN LeadTimeZero
    ELSE LET timed_prs == SelectSeq(pull_requests, LAMBDA p : p.cycle_time_hours # NaN)
             lead_times == Column(timed_prs, "cycle_time_hours")
         IN  IF empty(timed_prs) THEN LeadTimeZero
             ELSE [mean_lead_time_hours |-> mean(lead_times),
                   median_lead_time_hours |-> median(lead_times),
                   p95_lead_time_hours |-> quantile(lead_times, 95),
                   total_merged_prs |-> Len(timed_prs)]

lead_time_for_changes(pull_requests) ==
    IF empty(pull_requests) THEN LeadTimeZero
    ELSE IF {"merged", "cycle_time_hours"} \subseteq Columns(pull_requests)
    THEN LET merged_prs ==
                SelectSeq(pull_requests, LAMBDA p : p.merged = TRUE /\ p.cycle_time_hours # NaN)
             lead_times == Column(merged_prs, "cycle_time_hours")
         IN  IF empty(merged_prs) THEN LeadTimeZero
             ELSE [mean_lead_time_hours |-> mean(lead_times),
                   median_lead_time_hours |-> median(lead_times),
                   p95_lead_time_hours |-> quantile(lead_times, 95),
                   total_merged_prs |-> Len(merged_prs)]
    ELSE Raise("KeyError")

RecoveryZero ==
    [mean_recovery_time_hours |-> 0, median_recovery_time_hours |-> 0,
     total_incidents |-> 0]

mean_time_to_recovery(issues) ==
    IF empty(issues) THEN RecoveryZero
    ELSE IF {"state", "is_bug", "is_incident", "created_at", "closed_at"} \subseteq Columns(issues)
    THEN LET incidents ==
                SelectSeq(issues, LAMBDA i :
                    /\ i.state = "closed"
                    /\ (i.is_bug = TRUE \/ i.is_incident = TRUE)
                    /\ i.created_at # NaT
                    /\ i.closed_at # NaT)
             recovery_times ==
                [k \in 1..Len(incidents) |->
                    (incidents[k].closed_at - incidents[k].created_at) * HoursPerTick]
         IN  IF empty(incidents) THEN RecoveryZero
             ELSE [mean_recovery_time_hours |-> mean(recovery_times),
                   median_recovery_time_hours |-> median(recovery_times),
                   total_incidents |-> Len(incidents)]
    ELSE Raise("KeyError")

\* variant: every bug issue counts, whenever it was created
change_failure_rate_of_all_bugs(deployments, issues, period_days, now_) ==
    LET total_deployments ==
            Len(SelectSeq(deployments, LAMBDA d :
                    InPeriod(d.created_at, now_ - timedelta(period_days), now_)))
        total_bugs == Len(SelectSeq(issues, LAMBDA i : i.is_bug = TRUE))
    IN  [change_failure_rate |->
            IF total_deployments > 0 THEN Round3(total_bugs, total_deployments) ELSE 0,
         total_deployments |-> total_deployments,
         total_bugs |-> total_bugs,
         period_days |-> period_days]

change_failure_rate(deployments, issues, period_days, now_) ==
    LET end_date == now_
        start_date == end_date - timedelta(period_days)
        deploymentsOk == empty(deployments) \/ "created_at" \in Columns(deployments)
        issuesOk == empty(issues) \/ {"created_at", "is_bug"} \subseteq Columns(issues)
        total_deployments ==
            IF ~empty(deployments)
            THEN Len(SelectSeq(deployments, LAMBDA d : InPeriod(d.created_at, start_date, end_date)))
            ELSE 0
        total_bugs ==
            IF ~empty(issues)
            THEN Len(SelectSeq(issues, LAMBDA i :
                        InPeriod(i.created_at, start_date, end_date) /\ i.is_bug = TRUE))
            ELSE 0
    IN  IF ~(deploymentsOk /\ issuesOk) THEN Raise("KeyError")
        ELSE [change_failure_rate |->
                IF total_deployments > 0 THEN Round3(total_bugs, total_deployments) ELSE 0,
              total_deployments |-> total_deployments,
              total_bugs |-> total_bugs,
              period_days |-> period_days]

\* get_all_dora_metrics reads the clock three times: in deployment_frequency,
\* in change_failure_rate and for calculated_at
SameClock(now_) ==
    [deployment_frequency |-> now_, change_failure_rate |-> now_, calculated_at |-> now_]

get_all_dora_metrics_reading(data, period_days, clock) ==
    LET deployments == DataFrame(data, "deployments")
        pull_requests == DataFrame(data, "pull_requests")
        issues == DataFrame(data, "issues")
        df == deployment_frequency(deployments, period_days, clock.deployment_frequency)
        lt == lead_time_for_changes(pull_requests)
        mttr == mean_time_to_recovery(issues)
        cfr == change_failure_rate(deployments, issues, period_days, clock.change_failure_rate)
    IN  IF IsRaise(df) THEN df
        ELSE IF IsRaise(lt) THEN lt
        ELSE IF IsRaise(mttr) THEN mttr
        ELSE IF IsRaise(cfr) THEN cfr
        ELSE [deployment_frequency |-> df,
              lead_time_for_changes |-> lt,
              mean_time_to_recovery |-> mttr,
              change_failure_rate |-> cfr,
              calculated_at |-> clock.calculated_at,
              period_days |-> period_days]

\* the call when all of it runs within one tick of the clock
get_all_dora_metrics(data, period_days, now_) ==
    get_all_dora_metrics_reading(data, period_days, SameClock(now_))

\* -------------------------------------------------------------- PRMetrics
NoPRData == [error |-> "No PR data available"]

\* variant: an undefined cycle time counts as a cycle time of 0 hours
cycle_time_analysis_undefined_as_zero(prs) ==
    IF empty(prs) THEN NoPRData
    ELSE LET cycle_times ==
                [i \in 1..Len(prs) |->
                    IF prs[i].cycle_time_hours = NaN THEN 0 ELSE prs[i].cycle_time_hours]
             s == Sorted(cycle_times)
         IN  [mean_cycle_time_hours |-> mean(cycle_times),
              median_cycle_time_hours |-> median(cycle_times),
              p75_cycle_time_hours |-> quantile(cycle_times, 75),
              p95_cycle_time_hours |-> quantile(cycle_times, 95),
              min_cycle_time_hours |-> 100 * s[1],
              max_cycle_time_hours |-> 100 * s[Len(s)],
              total_prs |-> Len(prs)]

cycle_time_analysis(prs) ==
    IF empty(prs) THEN NoPRData
    ELSE IF "cycle_time_hours" \notin Columns(prs) THEN Raise("KeyError")
    ELSE LET valid_prs == SelectSeq(prs, LAMBDA p : p.cycle_time_hours # NaN)
             cycle_times == Column(valid_prs, "cycle_time_hours")
             s == Sorted(cycle_times)
         IN  IF empty(valid_prs) THEN [error |-> "No PRs with valid cycle times"]
             ELSE [mean_cycle_time_hours |-> mean(cycle_times),
                   median_cycle_time_hours |-> median(cycle_times),
                   p75_cycle_time_hours |-> quantile(cycle_times, 75),
                   p95_cycle_time_hours |-> quantile(cycle_times, 95),
                   min_cycle_time_hours |-> 100 * s[1],
                   max_cycle_time_hours |-> 100 * s[Len(s)],
                   total_prs |-> Len(valid_prs)]

\* variant: a pull request counts as unreviewed when it has no comment at all
review_analysis_counting_uncommented(prs) ==
    IF empty(prs) THEN NoPRData
    ELSE LET review_comments == Column(prs, "review_comments")
             total_comments == Column(prs, "total_comments")
             pr_sizes == [i \in 1..Len(prs) |-> prs[i].additions + prs[i].deletions]
         IN  [mean_review_comments |-> mean(review_comments),
              median_review_comments |-> median(review_comments),
              mean_total_comments |-> mean(total_comments),
              median_total_comments |-> median(total_comments),
              mean_pr_size |-> mean(pr_sizes),
              median_pr_size |-> median(pr_sizes),
              prs_with_no_reviews |-> Len(SelectSeq(prs, LAMBDA p : p.total_comments = 0)),
              total_prs |-> Len(prs)]

review_analysis(prs) ==
    IF empty(prs) THEN NoPRData
    ELSE IF {"review_comments", "total_comments", "additions", "deletions"} \subseteq Columns(prs)
    THEN LET review_comments == Column(prs, "review_comments")
             total_comments == Column(prs, "total_comments")
             pr_sizes == [i \in 1..Len(prs) |-> prs[i].additions + prs[i].deletions]
         IN  [mean_review_comments |-> mean(review_comments),
              median_review_comments |-> median(review_comments),
              mean_total_comments |-> mean(total_comments),
              median_total_comments |-> median(total_comments),
              mean_pr_size |-> mean(pr_sizes),
              median_pr_size |-> median(pr_sizes),
              prs_with_no_reviews |-> Len(SelectSeq(prs, LAMBDA p : p.review_comments = 0)),
              total_prs |-> Len(prs)]
    ELSE Raise("KeyError")

\* variant: every closed pull request counts as rejected, merged or not
merge_analysis_closed_as_rejected(prs) ==
    IF empty(prs) THEN NoPRData
    ELSE LET total_prs == Len(prs)
             merged_prs == Len(SelectSeq(prs, LAMBDA p : p.merged = TRUE))
             closed_unmerged == Len(SelectSeq(prs, LAMBDA p : p.state = "closed"))
             open_prs == Len(SelectSeq(prs, LAMBDA p : p.state = "open"))
         IN  [total_prs |-> total_prs,
              merged_prs |-> merged_prs,
              closed_unmerged_prs |-> closed_unmerged,
              open_prs |-> open_prs,
              merge_rate |-> Round3(merged_prs, total_prs),
              rejection_rate |-> Round3(closed_unmerged, total_prs)]

\* variant: no early return; an empty table gives counts and rates of 0
merge_analysis_counting_empty_table(prs) ==
    LET total_prs == Len(prs)
        merged_prs == Len(SelectSeq(prs, LAMBDA p : p.merged = TRUE))
        closed_unmerged ==
            Len(SelectSeq(prs, LAMBDA p : p.state = "closed" /\ p.merged = FALSE))
        open_prs == Len(SelectSeq(prs, LAMBDA p : p.state = "open"))
    IN  [total_prs |-> total_prs,
         merged_prs |-> merged_prs,
         closed_unmerged_prs |-> closed_unmerged,
         open_prs |-> open_prs,
         merge_rate |-> IF total_prs > 0 THEN Round3(merged_prs, total_prs) ELSE 0,
         rejection_rate |-> IF total_prs > 0 THEN Round3(closed_unmerged, total_prs) ELSE 0]

merge_analysis(prs) ==
    IF empty(prs) THEN NoPRData
    ELSE IF {"merged", "state"} \subseteq Columns(prs)
    THEN LET total_prs == Len(prs)
             merged_prs == Len(SelectSeq(prs, LAMBDA p : p.merged = TRUE))
             closed_unmerged ==
                Len(SelectSeq(prs, LAMBDA p : p.state = "closed" /\ p.merged = FALSE))
             open_prs == Len(SelectSeq(prs, LAMBDA p : p.state = "open"))
         IN  [total_prs |-> total_prs,
              merged_prs |-> merged_prs,
              closed_unmerged_prs |-> closed_unmerged,
              open_prs |-> open_prs,
              merge_rate |-> IF total_prs > 0 THEN Round3(merged_prs, total_prs) ELSE 0,
              rejection_rate |-> IF total_prs > 0 THEN Round3(closed_unmerged, total_prs) ELSE 0]
    ELSE Raise("KeyError")

\* ---------------------------------------------------- ProductivityMetrics
\* the logins of the model, in the order pandas sorts group keys
Logins == <<"alice", "bob", "carol", "dave", "erin", "frank">>
LoginRank(a) == CHOOSE i \in 1..Len(Logins) : Logins[i] = a

\* DataFrame.head(5) of a frame indexed by sorted group key
head5(keys) == {a \in keys : Cardinality({b \in keys : LoginRank(b) < LoginRank(a)}) < 5}

RECURSIVE Gcd(_, _)
Gcd(a, b) == IF b = 0 THEN a ELSE Gcd(b, a % b)

\* an unrounded mean sum / n, kept as a fraction in lowest terms
Fraction(total, n) ==
    IF n = 0 THEN [num |-> NaN, den |-> 0]
    ELSE LET g == Gcd(total, n) IN
         IF g = 0 THEN [num |-> 0, den |-> 1] ELSE [num |-> total \div g, den |-> n \div g]

SumOf(df, col) == SeqSum(Column(df, col))

\* groupby('author').agg(...): one row per author login, None logins dropped
GroupAuthors(df) == {df[i].author : i \in 1..Len(df)} \ {NoLogin}
RowsOf(df, a) == SelectSeq(df, LAMBDA r : r.author = a)

CommitColumns == {"date", "author", "sha", "additions", "deletions", "total_changes", "files_changed"}
PRActivityColumns == {"created_at", "author", "number", "additions", "deletions", "review_comments"}

commit_activity(commits, start_date, end_date) ==
    LET period_commits == SelectSeq(commits, LAMBDA c : InPeriod(c.date, start_date, end_date))
        authors == GroupAuthors(period_commits)
        author_stats ==
            [a \in authors |->
                [commits |-> Len(RowsOf(period_commits, a)),
                 additions |-> SumOf(RowsOf(period_commits, a), "additions"),
                 deletions |-> SumOf(RowsOf(period_commits, a), "deletions"),
                 total_changes |-> SumOf(RowsOf(period_commits, a), "total_changes"),
                 files_changed |-> SumOf(RowsOf(period_commits, a), "files_changed")]]
        grouped == SelectSeq(period_commits, LAMBDA c : c.author # NoLogin)
    IN  [total_commits |-> Len(period_commits),
         total_authors |-> Cardinality(authors),
         mean_commits_per_author |->
            IF authors = {} THEN NaN ELSE Round2(Len(grouped), Cardinality(authors)),
         mean_changes_per_commit |-> mean(Column(period_commits, "total_changes")),
         top_contributors |-> [a \in head5(authors) |-> author_stats[a]]]

pr_activity(pull_requests, start_date, end_date) ==
    LET period_prs == SelectSeq(pull_requests, LAMBDA p : InPeriod(p.created_at, start_date, end_date))
        authors == GroupAuthors(period_prs)
        pr_author_stats ==
            [a \in authors |->
                [prs |-> Len(RowsOf(period_prs, a)),
                 additions |-> SumOf(RowsOf(period_prs, a), "additions"),
                 deletions |-> SumOf(RowsOf(period_prs, a), "deletions"),
                 review_comments |-> SumOf(RowsOf(period_prs, a), "review_comments")]]
        grouped == SelectSeq(period_prs, LAMBDA p : p.author # NoLogin)
    IN  [total_prs |-> Len(period_prs),
         pr_authors |-> Cardinality(authors),
         mean_prs_per_author |->
            IF authors = {} THEN NaN ELSE Round2(Len(grouped), Cardinality(authors)),
         mean_pr_size |->
            mean([i \in 1..Len(period_prs) |-> period_prs[i].additions + period_prs[i].deletions]),
         top_pr_contributors |-> [a \in head5(authors) |-> pr_author_stats[a]]]

developer_activity(commits, pull_requests, period_days, now_) ==
    LET end_date == now_
        start_date == end_date - timedelta(period_days)
        tail == [period_days |-> period_days, calculated_at |-> now_]
        withCommits ==
            IF ~empty(commits)
            THEN [commit_activity |-> commit_activity(commits, start_date, end_date)] @@ tail
            ELSE tail
        withPRs ==
            IF ~empty(pull_requests)
            THEN [pr_activity |-> pr_activity(pull_requests, start_date, end_date)] @@ withCommits
            ELSE withCommits
    IN  IF ~empty(commits) /\ ~(CommitColumns \subseteq Columns(commits)) THEN Raise("KeyError")
        ELSE IF ~empty(pull_requests) /\ ~(PRActivityColumns \subseteq Columns(pull_requests))
        THEN Raise("KeyError")
        ELSE withPRs

\* created_at.dt.isocalendar().week, day 0 being the Monday of week 1
WeeksPerYear == 52
isoweek(t) == (((t \div TicksPerDay) \div 7) % WeeksPerYear) + 1

\* a dictionary key with its Python type: the int w, the str s
IntKey(w) == [int |-> w]
StrKey(s) == [str |-> s]

TrendColumns ==
    {"created_at", "review_comments", "total_comments", "cycle_time_hours",
     "additions", "deletions", "changed_files"}

NotNaN(xs) == SelectSeq(xs, LAMBDA x : x # NaN)

code_quality_trends(pull_requests) ==
    IF empty(pull_requests) THEN NoPRData
    ELSE IF ~(TrendColumns \subseteq Columns(pull_requests)) THEN Raise("KeyError")
    ELSE LET dated == SelectSeq(pull_requests, LAMBDA p : p.created_at # NaT)
             weeks == {isoweek(dated[i].created_at) : i \in 1..Len(dated)}
             OfWeek(w) == SelectSeq(dated, LAMBDA p : isoweek(p.created_at) = w)
             Avg(df, col) == Fraction(SumOf(df, col), Len(df))
             cycle(df) == NotNaN(Column(df, "cycle_time_hours"))
             Stats(w) ==
                [review_comments |-> Avg(OfWeek(w), "review_comments"),
                 total_comments |-> Avg(OfWeek(w), "total_comments"),
                 cycle_time_hours |-> Fraction(SeqSum(cycle(OfWeek(w))), Len(cycle(OfWeek(w)))),
                 additions |-> Avg(OfWeek(w), "additions"),
                 deletions |-> Avg(OfWeek(w), "deletions"),
                 changed_files |-> Avg(OfWeek(w), "changed_files")]
         IN  [weekly_trends |-> [key \in {IntKey(w) : w \in weeks} |-> Stats(key.int)],
              overall_averages |->
                [avg_review_comments |-> mean(Column(pull_requests, "review_comments")),
                 avg_cycle_time |-> mean(cycle(pull_requests)),
                 avg_pr_size |->
                    mean([i \in 1..Len(pull_requests) |->
                            pull_requests[i].additions + pull_requests[i].deletions])]]

RECURSIVE Flatten(_)
Flatten(ss) == IF Len(ss) = 0 THEN <<>> ELSE Head(ss) \o Flatten(Tail(ss))

\* pd.Series(xs).value_counts().head(5): the five most frequent values with
\* their counts, equally frequent values in the order of first appearance
value_counts_head5(xs) ==
    LET Count(r) == Len(SelectSeq(xs, LAMBDA x : x = r))
        First(r) == CHOOSE i \in 1..Len(xs) : xs[i] = r /\ \A j \in 1..(i - 1) : xs[j] # r
        Before(q, r) == Count(q) > Count(r) \/ (Count(q) = Count(r) /\ First(q) < First(r))
        kept == {r \in Range(xs) : Cardinality({q \in Range(xs) : Before(q, r)}) < 5}
    IN  [r \in kept |-> Count(r)]

\* variant: a pull request reviewed by its own author counts as a pair
collaboration_metrics_with_self_reviews(pull_requests) ==
    IF empty(pull_requests) THEN NoPRData
    ELSE LET all_reviewers == Flatten(Column(pull_requests, "reviewers"))
             reviewer_counts ==
                [r \in Range(all_reviewers) |->
                    Len(SelectSeq(all_reviewers, LAMBDA x : x = r))]
             PairsOf(pr) == {<<pr.author, pr.reviewers[j]>> : j \in 1..Len(pr.reviewers)}
             collaboration_pairs ==
                UNION {PairsOf(pull_requests[i]) : i \in 1..Len(pull_requests)}
         IN  [total_reviewers |-> Cardinality(DOMAIN reviewer_counts),
              most_active_reviewers |-> value_counts_head5(all_reviewers),
              collaboration_pairs |-> Cardinality(collaboration_pairs),
              avg_reviewers_per_pr |->
                mean([i \in 1..Len(pull_requests) |-> Len(pull_requests[i].reviewers)])]

collaboration_metrics(pull_requests) ==
    IF empty(pull_requests) THEN NoPRData
    ELSE IF ~({"reviewers", "author"} \subseteq Columns(pull_requests)) THEN Raise("KeyError")
    ELSE LET all_reviewers == Flatten(Column(pull_requests, "reviewers"))
             reviewer_counts ==
                [r \in Range(all_reviewers) |->
                    Len(SelectSeq(all_reviewers, LAMBDA x : x = r))]
             PairsOf(pr) ==
                {<<pr.author, pr.reviewers[j]>> :
                    j \in {k \in 1..Len(pr.reviewers) : pr.reviewers[k] # pr.author}}
             collaboration_pairs ==
                UNION {PairsOf(pull_requests[i]) : i \in 1..Len(pull_requests)}
         IN  [total_reviewers |-> Cardinality(DOMAIN reviewer_counts),
              most_active_reviewers |-> value_counts_head5(all_reviewers),
              collaboration_pairs |-> Cardinality(collaboration_pairs),
              avg_reviewers_per_pr |->
                mean([i \in 1..Len(pull_requests) |-> Len(pull_requests[i].reviewers)])]

\* --------------------------------------------------------------- pipeline
Tasks ==
    {"extract_github_data", "calculate_dora_metrics", "calculate_pr_metrics",
     "calculate_productivity_metrics", "store_metrics", "generate_dashboard_data"}
Calculators ==
    {"calculate_dora_metrics", "calculate_pr_metrics", "calculate_productivity_metrics"}

\* variant: the calculators are not set downstream of the extraction
UpstreamWithoutExtract(t) ==
    IF t = "store_metrics" THEN Calculators
    ELSE IF t = "generate_dashboard_data" THEN {"store_metrics"}
    ELSE {}

\* variant: store_metrics is not set downstream of the productivity task
UpstreamStoreEarly(t) ==
    IF t \in Calculators THEN {"extract_github_data"}
    ELSE IF t = "store_metrics"
    THEN {"calculate_dora_metrics", "calculate_pr_metrics"}
    ELSE IF t = "generate_dashboard_data" THEN {"store_metrics"}
    ELSE {}

\* extract_task >> [dora_task, pr_task, productivity_task]
\* [dora_task, pr_task, productivity_task] >> store_task
\* store_task >> dashboard_task
Upstream(t) ==
    IF t \in Calculators THEN {"extract_github_data"}
    ELSE IF t = "store_metrics" THEN Calculators
    ELSE IF t = "generate_dashboard_data" THEN {"store_metrics"}
    ELSE {}

XComSlots ==
    {<<"extract_github_data", "github_data">>,
     <<"calculate_dora_metrics", "dora_metrics">>,
     <<"calculate_pr_metrics", "pr_metrics">>,
     <<"calculate_productivity_metrics", "productivity_metrics">>,
     <<"store_metrics", "all_metrics">>}

xcom_pull(task_ids, key) == xcom[<<task_ids, key>>]
xcom_push(task_id, key, value) == [xcom EXCEPT ![<<task_id, key>>] = value]

\* Python truth value of a dict or None
Falsy(v) == v = None \/ DOMAIN v = {}
OrEmpty(v) == IF Falsy(v) THEN EmptyDict ELSE v

\* no calculator object has been constructed
NoInstance == [class |-> "none"]

EmptyData ==
    [pull_requests |-> <<>>, deployments |-> <<>>, issues |-> <<>>,
     commits |-> <<>>, repositories |-> <<>>]


NoTaskState == [t \in Tasks |-> "none"]
NoWindow == [since |-> 0, until |-> 0]
NoXCom == [slot \in XComSlots |-> None]

Init ==
    /\ repositories \in SeqsUpTo(Repos, MaxRepos)
    /\ collection_days \in 1..MaxCollectionDays
    /\ fetch_fails \in [Repos -> FailSteps]
    /\ \A r \in Repos \ Range(repositories) : fetch_fails[r] = "none"
    /\ now = MaxClock - 1    \* the records of the data source lie in the window
    /\ run = 1
    /\ ts = NoTaskState
    /\ started = <<>>
    /\ idx = 0
    /\ window = NoWindow
    /\ all_data = EmptyData
    /\ attempted = <<>>
    /\ error_log = {}
    /\ xcom = NoXCom
    /\ latest_file = None
    /\ dated_files = [d \in 0..MaxDate |-> None]
    /\ run_reports = <<>>
    /\ charts = {}
    /\ tables = EmptyData
    /\ calls = <<>>
    /\ instance = NoInstance

\* the scheduler starts a task once every upstream task has succeeded
Ready(t) ==
    /\ ts[t] = "none"
    /\ \A u \in Upstream(t) : ts[u] = "success"

\* a record with repo_name set: rec['repo_name'] = repo_name
WithRepoName(rec, repo_name) ==
    [k \in DOMAIN rec \cup {"repo_name"} |-> IF k = "repo_name" THEN repo_name ELSE rec[k]]
Tagged(recs, repo_name) == [i \in 1..Len(recs) |-> WithRepoName(recs[i], repo_name)]

\* collector.get_repository_info(repo_name): the attribute lookup on the
\* collector, then the fetch
get_repository_info(repo_name) ==
    IF "get_repository_info" \notin CollectorMethods THEN Raise("AttributeError")
    ELSE IF fetch_fails[repo_name] = "info" THEN Raise("GithubException")
    ELSE [name |-> repo_name]

\* the body of the try block for one repository: the dataset as the body
\* leaves it, and whether the body raised
TryCollect(data, repo_name, since, until) ==
    LET repo_info == get_repository_info(repo_name)
        d1 == [data EXCEPT !.repositories = Append(@, WithRepoName(repo_info, repo_name))]
        prs == Tagged(collect_pull_requests(RawPulls(repo_name), since, until, NoUserFilter), repo_name)
        d2 == [d1 EXCEPT !.pull_requests = @ \o prs]
        deployments == Tagged(collect_deployments(RawDeployments(repo_name), since, until, NoUserFilter), repo_name)
        d3 == [d2 EXCEPT !.deployments = @ \o deployments]
        issues == Tagged(collect_issues(RawIssues(repo_name), since, until, NoUserFilter), repo_name)
        d4 == [d3 EXCEPT !.issues = @ \o issues]
        commits == Tagged(collect_commits(RawCommits(repo_name), since, until), repo_name)
        d5 == [d4 EXCEPT !.commits = @ \o commits]
    IN  IF IsRaise(repo_info) THEN [data |-> data, raised |-> TRUE]
        ELSE IF fetch_fails[repo_name] = "prs" THEN [data |-> d1, raised |-> TRUE]
        ELSE IF fetch_fails[repo_name] = "deployments" THEN [data |-> d2, raised |-> TRUE]
        ELSE IF fetch_fails[repo_name] = "issues" THEN [data |-> d3, raised |-> TRUE]
        ELSE IF fetch_fails[repo_name] = "commits" THEN [data |-> d4, raised |-> TRUE]
        ELSE [data |-> d5, raised |-> FALSE]

\* variant: the except clause leaves the loop (break instead of continue)
ExceptBreak(i) == Len(repositories) + 1

\* the except clause of the repository loop: log the error, then continue
\* with the next position
ExceptContinue(i) == i + 1

\* extract_github_data, lines 56-74
extract_begin ==
    /\ Ready("extract_github_data")
    /\ ts' = [ts EXCEPT !["extract_github_data"] = "running"]
    /\ started' = Append(started, "extract_github_data")
    /\ all_data' = EmptyData
    /\ window' = [since |-> now - timedelta(collection_days), until |-> now]
    /\ idx' = 1
    /\ UNCHANGED <<repositories, collection_days, fetch_fails, now, run,
                   attempted, error_log, xcom, latest_file, dated_files,
                   run_reports, charts, calcVars>>

\* extract_github_data, one iteration of the repository loop
extract_repo ==
    /\ ts["extract_github_data"] = "running"
    /\ idx \in 1..Len(repositories)
    /\ LET repo_name == repositories[idx]
           r == TryCollect(all_data, repo_name, window.since, window.until)
       IN  /\ attempted' = Append(attempted, repo_name)
           /\ all_data' = r.data
           /\ error_log' = IF r.raised THEN error_log \cup {idx} ELSE error_log
           /\ idx' = IF r.raised THEN ExceptContinue(idx) ELSE idx + 1
    /\ UNCHANGED <<repositories, collection_days, fetch_fails, now, run, ts, started,
                   window, xcom, latest_file, dated_files, run_reports, charts, calcVars>>

\* extract_github_data, lines 136-145
extract_finish ==
    /\ ts["extract_github_data"] = "running"
    /\ idx > Len(repositories)
    /\ xcom' = xcom_push("extract_github_data", "github_data", all_data)
    /\ ts' = [ts EXCEPT !["extract_github_data"] = "success"]
    /\ UNCHANGED <<repositories, collection_days, fetch_fails, now, run, started, idx,
                   window, all_data, attempted, error_log, latest_file, dated_files,
                   run_reports, charts, calcVars>>

\* the task instance ends: "success" when the callable returned, "failed"
\* when it raised
Finish(t, result) == [ts EXCEPT ![t] = IF IsRaise(result) THEN "failed" ELSE "success"]

\* variant: a dataset without any repository is rejected like a missing one
dora_task_rejecting_no_repositories(github_data) ==
    IF Falsy(github_data) \/ empty(github_data.repositories) THEN Raise("ValueError")
    ELSE get_all_dora_metrics(github_data, collection_days, now)

dora_task(github_data) ==
    IF Falsy(github_data) THEN Raise("ValueError")
    ELSE get_all_dora_metrics(github_data, collection_days, now)

calculate_dora_metrics ==
    /\ Ready("calculate_dora_metrics")
    /\ started' = Append(started, "calculate_dora_metrics")
    /\ LET dora_metrics == dora_task(xcom_pull("extract_github_data", "github_data"))
       IN  /\ xcom' = IF IsRaise(dora_metrics) THEN xcom
                      ELSE xcom_push("calculate_dora_metrics", "dora_metrics", dora_metrics)
           /\ ts' = Finish("calculate_dora_metrics", dora_metrics)
    /\ UNCHANGED <<repositories, collection_days, fetch_fails, now, run, idx,
                   window, all_data, attempted, error_log, latest_file, dated_files,
                   run_reports, charts, calcVars>>

\* the value calculate_pr_metrics pushes; None when it returns {} early
pr_task(github_data) ==
    IF Falsy(github_data) THEN None
    ELSE IF empty(github_data.pull_requests) THEN None
    ELSE LET cta == cycle_time_analysis(github_data.pull_requests)
             ra == review_analysis(github_data.pull_requests)
             ma == merge_analysis(github_data.pull_requests)
         IN  IF IsRaise(cta) THEN cta
             ELSE IF IsRaise(ra) THEN ra
             ELSE IF IsRaise(ma) THEN ma
             ELSE [cycle_time_analysis |-> cta, review_analysis |-> ra, merge_analysis |-> ma]

calculate_pr_metrics ==
    /\ Ready("calculate_pr_metrics")
    /\ started' = Append(started, "calculate_pr_metrics")
    /\ LET pr_metrics == pr_task(xcom_pull("extract_github_data", "github_data"))
       IN  /\ xcom' = IF IsRaise(pr_metrics) \/ pr_metrics = None THEN xcom
                      ELSE xcom_push("calculate_pr_metrics", "pr_metrics", pr_metrics)
           /\ ts' = Finish("calculate_pr_metrics", pr_metrics)
    /\ UNCHANGED <<repositories, collection_days, fetch_fails, now, run, idx,
                   window, all_data, attempted, error_log, latest_file, dated_files,
                   run_reports, charts, calcVars>>

\* the value calculate_productivity_metrics pushes; None when it returns {} early
productivity_task(github_data) ==
    IF Falsy(github_data) THEN None
    ELSE LET commits == DataFrame(github_data, "commits")
             pull_requests == DataFrame(github_data, "pull_requests")
             da == developer_activity(commits, pull_requests, collection_days, now)
             cqt == code_quality_trends(pull_requests)
             cm == collaboration_metrics(pull_requests)
         IN  IF IsRaise(da) THEN da
             ELSE IF IsRaise(cqt) THEN cqt
             ELSE IF IsRaise(cm) THEN cm
             ELSE [developer_activity |-> da, code_quality_trends |-> cqt,
                   collaboration_metrics |-> cm]

calculate_productivity_metrics ==
    /\ Ready("calculate_productivity_metrics")
    /\ started' = Append(started, "calculate_productivity_metrics")
    /\ LET productivity_metrics ==
              productivity_task(xcom_pull("extract_github_data", "github_data"))
       IN  /\ xcom' = IF IsRaise(productivity_metrics) \/ productivity_metrics = None THEN xcom
                      ELSE xcom_push("calculate_productivity_metrics", "productivity_metrics",
                                     productivity_metrics)
           /\ ts' = Finish("calculate_productivity_metrics", productivity_metrics)
    /\ UNCHANGED <<repositories, collection_days, fetch_fails, now, run, idx,
                   window, all_data, attempted, error_log, latest_file, dated_files,
                   run_reports, charts, calcVars>>

\* store_metrics, lines 281-287
combine_metrics ==
    [timestamp |-> now,
     dora_metrics |-> OrEmpty(xcom_pull("calculate_dora_metrics", "dora_metrics")),
     pr_metrics |-> OrEmpty(xcom_pull("calculate_pr_metrics", "pr_metrics")),
     productivity_metrics |->
        OrEmpty(xcom_pull("calculate_productivity_metrics", "productivity_metrics")),
     collection_period_days |-> collection_days]

\* json.dump(obj, f, default=str): the document written, as json.load reads
\* it.  Dictionary keys that are Python ints are written as strings; the
\* reports carry int keys in code_quality_trends' weekly_trends only.
StringKeys(d) ==
    [key \in {StrKey(ToString(k.int)) : k \in DOMAIN d} |->
        d[CHOOSE k \in DOMAIN d : StrKey(ToString(k.int)) = key]]
JsonOfTrends(trends) ==
    IF "weekly_trends" \in DOMAIN trends
    THEN [trends EXCEPT !.weekly_trends = StringKeys(@)] ELSE trends
JsonOfProductivity(productivity) ==
    IF "code_quality_trends" \in DOMAIN productivity
    THEN [productivity EXCEPT !.code_quality_trends = JsonOfTrends(@)] ELSE productivity
json_dump(metrics) ==
    IF "productivity_metrics" \in DOMAIN metrics
    THEN [metrics EXCEPT !.productivity_metrics = JsonOfProductivity(@)] ELSE metrics

\* the report has a dictionary with keys that are not str
HasIntegerKeys(metrics) ==
    /\ "productivity_metrics" \in DOMAIN metrics
    /\ "code_quality_trends" \in DOMAIN metrics.productivity_metrics
    /\ "weekly_trends" \in DOMAIN metrics.productivity_metrics.code_quality_trends
    /\ DOMAIN metrics.productivity_metrics.code_quality_trends.weekly_trends # {}

\* a file opened for writing whose json.dump raised TypeError part-way: keys
\* of an integer type that is not int (a numpy integer) are refused
PartialFile == [partial |-> TRUE]

\* what open(filepath, 'w') and json.dump leave in the file: the week keys
\* come from a pandas index and are ints or numpy integers by pandas version
FileAfterDump(metrics) ==
    {json_dump(metrics)} \cup (IF HasIntegerKeys(metrics) THEN {PartialFile} ELSE {})

\* load_metrics_from_file: the parsed document, None when the file is
\* missing or does not parse
json_load(file) == IF file = None \/ file = PartialFile THEN None ELSE file

\* variant: one file name for every date
undated_filename(t) == 0

\* the date in the name github_metrics_<date>.json
dated_filename(t) == strftime_date(t)

store_metrics ==
    /\ Ready("store_metrics")
    /\ started' = Append(started, "store_metrics")
    /\ LET all_metrics == combine_metrics
       IN  /\ dated_files' = [dated_files EXCEPT ![dated_filename(now)] = json_dump(all_metrics)]
           /\ latest_file' = json_dump(all_metrics)
           /\ xcom' = xcom_push("store_metrics", "all_metrics", all_metrics)
           /\ run_reports' = Append(run_reports, all_metrics)
    /\ ts' = [ts EXCEPT !["store_metrics"] = "success"]
    /\ UNCHANGED <<repositories, collection_days, fetch_fails, now, run, idx,
                   window, all_data, attempted, error_log, charts, calcVars>>

\* create_static_charts: the names of the figures it returns
create_static_charts(metrics_data) ==
    LET pr_metrics == metrics_data.pr_metrics
        cycle_analysis ==
            IF "cycle_time_analysis" \in DOMAIN pr_metrics
            THEN pr_metrics.cycle_time_analysis ELSE EmptyDict
    IN  IF Falsy(cycle_analysis) THEN <<"dora_summary">>
        ELSE <<"dora_summary", "cycle_time_distribution">>

\* variant: the exception of the try block fails the task
generate_dashboard_data_reraising ==
    /\ Ready("generate_dashboard_data")
    /\ started' = Append(started, "generate_dashboard_data")
    /\ LET all_metrics == xcom_pull("store_metrics", "all_metrics")
       IN  IF Falsy(all_metrics)
           THEN /\ charts' = charts
                /\ ts' = [ts EXCEPT !["generate_dashboard_data"] = "success"]
           ELSE \E n \in 0..Len(create_static_charts(all_metrics)) :
                   /\ charts' = charts \cup
                         {<<create_static_charts(all_metrics)[i], strftime_date(now)>> : i \in 1..n}
                   /\ ts' = [ts EXCEPT !["generate_dashboard_data"] =
                                IF n = Len(create_static_charts(all_metrics))
                                THEN "success" ELSE "failed"]
    /\ UNCHANGED <<repositories, collection_days, fetch_fails, now, run, idx,
                   window, all_data, attempted, error_log, xcom, latest_file,
                   dated_files, run_reports, calcVars>>

\* generate_dashboard_data: the try block writes the first n chart files and
\* then either is done or raises; the except clause swallows the exception
generate_dashboard_data ==
    /\ Ready("generate_dashboard_data")
    /\ started' = Append(started, "generate_dashboard_data")
    /\ LET all_metrics == xcom_pull("store_metrics", "all_metrics")
       IN  IF Falsy(all_metrics) THEN charts' = charts
           ELSE \E n \in 0..Len(create_static_charts(all_metrics)) :
                   charts' = charts \cup
                      {<<create_static_charts(all_metrics)[i], strftime_date(now)>> : i \in 1..n}
    /\ ts' = [ts EXCEPT !["generate_dashboard_data"] = "success"]
    /\ UNCHANGED <<repositories, collection_days, fetch_fails, now, run, idx,
                   window, all_data, attempted, error_log, xcom, latest_file,
                   dated_files, run_reports, calcVars>>

\* time passes
Tick ==
    /\ now < MaxClock
    /\ now' = now + 1
    /\ UNCHANGED <<pipelineVars, calcVars>>

\* nothing of the current run is running or can start
RunOver ==
    \A t \in Tasks :
        /\ ts[t] # "running"
        /\ ts[t] = "none" => \E u \in Upstream(t) : ts[u] # "success"

\* the scheduler creates the next DAG run (max_active_runs = 1)
NewRun ==
    /\ RunOver
    /\ run < MaxRuns
    /\ run' = run + 1
    /\ ts' = NoTaskState
    /\ started' = <<>>
    /\ idx' = 0
    /\ window' = NoWindow
    /\ all_data' = EmptyData
    /\ attempted' = <<>>
    /\ error_log' = {}
    /\ xcom' = NoXCom
    /\ UNCHANGED <<repositories, collection_days, fetch_fails, now, latest_file,
                   dated_files, run_reports, charts, calcVars>>

Next ==
    \/ extract_begin
    \/ extract_repo
    \/ extract_finish
    \/ calculate_dora_metrics
    \/ calculate_pr_metrics
    \/ calculate_productivity_metrics
    \/ store_metrics
    \/ generate_dashboard_data
    \/ Tick

\* one DAG run, for every configuration and every data source failure pattern
Spec == Init /\ [][Next]_vars

\* a sequence of DAG runs over a healthy data source
InitRuns ==
    /\ repositories \in SeqsUpTo(Repos, 1)
    /\ now = MaxTime
    /\ run = 1
    /\ ts = NoTaskState
    /\ started = <<>>
    /\ idx = 0
    /\ window = NoWindow
    /\ all_data = EmptyData
    /\ attempted = <<>>
    /\ error_log = {}
    /\ xcom = NoXCom
    /\ latest_file = None
    /\ dated_files = [d \in 0..MaxDate |-> None]
    /\ run_reports = <<>>
    /\ charts = {}
    /\ tables = EmptyData
    /\ calls = <<>>
    /\ instance = NoInstance
    /\ collection_days = 1
    /\ fetch_fails = [r \in Repos |-> "none"]

NextRuns == Next \/ NewRun

RunsSpec == InitRuns /\ [][NextRuns]_vars

\* ------------------------------------------------------------ calculators
\* The calculators as a library: a caller holds a dataset (tables), builds
\* the calculators over it and calls their methods, at any moment.

\* rows as the collector's extraction produces them
CollectedDeployment(n, created) ==
    extract_deployment_data(
        [id |-> n, sha |-> "sha", ref |-> "main", environment |-> "production",
         description |-> "d", created_at |-> created, updated_at |-> created,
         creator |-> "alice", statuses_url |-> "url", url |-> "url"])

CollectedIssue(n, created, closed) ==
    extract_issue_data(
        [id |-> n, number |-> n, title |-> "t", body |-> "b",
         state |-> IF closed = NaT THEN "open" ELSE "closed",
         created_at |-> created, updated_at |-> created, closed_at |-> closed,
         user |-> "bob", assignees |-> <<>>, labels |-> <<"bug">>, comments |-> 0,
         html_url |-> "url", pull_request |-> FALSE])

CollectedPR(n, created, closed, merged) ==
    extract_pr_data(
        [id |-> n, number |-> n, title |-> "t",
         state |-> IF closed = NaT THEN "open" ELSE "closed",
         created_at |-> created, updated_at |-> created, closed_at |-> closed,
         merged_at |-> IF merged THEN closed ELSE NaT, merged |-> merged,
         user |-> "alice", assignees |-> <<>>, requested_reviewers |-> <<"bob">>,
         labels |-> <<>>, additions |-> 3, deletions |-> 1, changed_files |-> 1,
         commits |-> 1, review_comments |-> 0, comments |-> 1, html_url |-> "url"])

CollectedCommit(n, date) ==
    extract_commit_data(
        [sha |-> n, message |-> "m", author_name |-> "Alice", author_email |-> "a@x",
         author_login |-> "alice", committer_name |-> "Alice",
         committer_email |-> "a@x", authored_date |-> date, committed_date |-> date,
         additions |-> 3, deletions |-> 1, total |-> 4, files |-> 1, html_url |-> "url"])

\* rows with the columns the calculators read
With(rec, extra) == extra @@ rec
FlaggedIssue(n, created, closed, is_bug) ==
    With(CollectedIssue(n, created, closed), [is_bug |-> is_bug, is_incident |-> FALSE])
AuthoredCommit(n, date, author) ==
    With(CollectedCommit(n, date), [date |-> date, author |-> author])

\* the tables the model draws the caller's dataset from: up to MaxRows rows,
\* numbered in order, each of one of a few kinds
DeploymentTables ==
    {[i \in 1..Len(ks) |-> CollectedDeployment(i, ks[i])] :
        ks \in SeqsUpTo({1, 3}, MaxRows)}

CollectedIssueTables ==
    {[i \in 1..Len(ks) |-> CollectedIssue(i, ks[i][1], ks[i][2])] :
        ks \in SeqsUpTo({<<1, 2>>}, MaxRows)}
FlaggedIssueTables ==
    {[i \in 1..Len(ks) |-> FlaggedIssue(i, ks[i][1], ks[i][2], ks[i][3])] :
        ks \in SeqsUpTo({<<1, 2, TRUE>>, <<3, NaT, TRUE>>, <<3, 4, FALSE>>}, MaxRows)}

PRTables ==
    {[i \in 1..Len(ks) |-> CollectedPR(i, ks[i][1], ks[i][2], ks[i][3])] :
        ks \in SeqsUpTo({<<1, 2, TRUE>>, <<2, 4, FALSE>>, <<3, NaT, FALSE>>}, MaxRows)}

CollectedCommitTables ==
    {[i \in 1..Len(ks) |-> CollectedCommit(i, ks[i])] : ks \in SeqsUpTo({3}, MaxRows)}
AuthoredCommitTables ==
    {[i \in 1..Len(ks) |-> AuthoredCommit(i, ks[i][1], ks[i][2])] :
        ks \in SeqsUpTo({<<2, "alice">>, <<4, "bob">>}, MaxRows)}

\* a dataset varies the tables of one calculator at a time
CalcInputs ==
    {[EmptyData EXCEPT !.deployments = d, !.issues = i] :
        d \in DeploymentTables, i \in CollectedIssueTables \cup FlaggedIssueTables}
    \cup {[EmptyData EXCEPT !.pull_requests = p] : p \in PRTables}
    \cup {[EmptyData EXCEPT !.commits = c] :
            c \in CollectedCommitTables \cup AuthoredCommitTables}

\* what one run of the three calculator tasks computes from a dataset
calculators(data) ==
    [dora_metrics |-> dora_task(data),
     pr_metrics |-> pr_task(data),
     productivity_metrics |-> productivity_task(data)]

Called(method, result) == Append(calls, [method |-> method, at |-> now, result |-> result])

call_calculators ==
    /\ Len(calls) < 2
    /\ calls' = Called("calculators", calculators(tables))
    /\ UNCHANGED <<pipelineVars, now, tables, instance>>

call_mean_time_to_recovery ==
    /\ Len(calls) < 2
    /\ calls' = Called("mean_time_to_recovery",
                       mean_time_to_recovery(DataFrame(tables, "issues")))
    /\ UNCHANGED <<pipelineVars, now, tables, instance>>

call_change_failure_rate ==
    /\ Len(calls) < 2
    /\ calls' = Called("change_failure_rate",
                       change_failure_rate(DataFrame(tables, "deployments"),
                                           DataFrame(tables, "issues"),
                                           collection_days, now))
    /\ UNCHANGED <<pipelineVars, now, tables, instance>>

\* save_metrics_to_file(metrics, filepath) on the report just calculated
save_metrics_to_file ==
    /\ Len(calls) = 1
    /\ calls[1].method = "calculators"
    /\ \A section \in DOMAIN calls[1].result : ~IsRaise(calls[1].result[section])
    /\ latest_file = None
    /\ latest_file' \in FileAfterDump(calls[1].result)
    /\ UNCHANGED <<repositories, collection_days, fetch_fails, now, run, ts, started, idx,
                   window, all_data, attempted, error_log, xcom, dated_files,
                   run_reports, charts, calcVars>>

\* load_metrics_from_file(filepath) of the file saved
load_metrics_from_file ==
    /\ Len(calls) < 2
    /\ latest_file # None
    /\ calls' = Called("load_metrics_from_file", json_load(latest_file))
    /\ UNCHANGED <<pipelineVars, now, tables, instance>>

\* the readings of the clock one call of get_all_dora_metrics may get when
\* it starts at t: the clock may tick between two readings
ClockReadings(t) ==
    {r \in [deployment_frequency : {t}, change_failure_rate : t..(t + 1),
            calculated_at : t..(t + 1)] : r.change_failure_rate <= r.calculated_at}

\* DORAMetrics(data).get_all_dora_metrics(period_days)
call_get_all_dora_metrics ==
    /\ Len(calls) < 1
    /\ \E clock \in ClockReadings(now) :
          /\ clock.calculated_at <= MaxClock
          /\ calls' = Called("get_all_dora_metrics",
                             get_all_dora_metrics_reading(tables, collection_days, clock))
          /\ now' = clock.calculated_at
    /\ UNCHANGED <<pipelineVars, tables, instance>>

InitCalc ==
    /\ repositories = <<>>
    /\ collection_days \in 1..MaxPeriod
    /\ fetch_fails = [r \in Repos |-> "none"]
    /\ now = MaxTime
    /\ run = 1
    /\ ts = NoTaskState
    /\ started = <<>>
    /\ idx = 0
    /\ window = NoWindow
    /\ all_data = EmptyData
    /\ attempted = <<>>
    /\ error_log = {}
    /\ xcom = NoXCom
    /\ latest_file = None
    /\ dated_files = [d \in 0..MaxDate |-> None]
    /\ run_reports = <<>>
    /\ charts = {}
    /\ tables \in CalcInputs
    /\ calls = <<>>
    /\ instance = NoInstance

NextCalc ==
    \/ call_calculators
    \/ call_mean_time_to_recovery
    \/ call_change_failure_rate
    \/ call_get_all_dora_metrics
    \/ save_metrics_to_file
    \/ load_metrics_from_file
    \/ Tick

CalcSpec == InitCalc /\ [][NextCalc]_vars

\* ----------------------------------------------------- calculator objects
\* A caller constructs one calculator object over a dataset and invokes its
\* methods, each at the moment now with the period collection_days.

\* DORAMetrics.__init__, PRMetrics.__init__, ProductivityMetrics.__init__
DORAMetrics(data) ==
    [class |-> "DORAMetrics",
     deployments |-> DataFrame(data, "deployments"),
     pull_requests |-> DataFrame(data, "pull_requests"),
     issues |-> DataFrame(data, "issues")]
PRMetrics(pull_requests) == [class |-> "PRMetrics", prs |-> pull_requests]
ProductivityMetrics(data) ==
    [class |-> "ProductivityMetrics",
     commits |-> DataFrame(data, "commits"),
     pull_requests |-> DataFrame(data, "pull_requests")]

\* self.pull_requests['week'] = self.pull_requests['created_at'].dt.isocalendar().week
AssignWeek(pull_requests) ==
    [i \in 1..Len(pull_requests) |->
        With(pull_requests[i], [week |-> isoweek(pull_requests[i].created_at)])]

\* a pull request row with a given cycle time
TimedPR(n, merged, hours) ==
    With(CollectedPR(n, 1, IF hours = NaN THEN NaT ELSE 2, merged),
         [cycle_time_hours |-> hours])

\* the tables the objects are constructed over
DeploymentRuns ==
    {[i \in 1..Len(ks) |-> CollectedDeployment(i, ks[i])] :
        ks \in SeqsUpTo({2, 4}, MaxDeployments)}
TimedPRTables ==
    {[i \in 1..Len(ks) |-> TimedPR(i, ks[i][1], ks[i][2])] :
        ks \in SeqsUpTo({<<TRUE, 10>>, <<TRUE, 20>>, <<TRUE, 30>>, <<TRUE, 0>>,
                         <<FALSE, 20>>, <<FALSE, NaN>>}, MaxTimedPRs)}
MergePRTables ==
    {[i \in 1..Len(ks) |-> CollectedPR(i, 1, ks[i][1], ks[i][2])] :
        ks \in SeqsUpTo({<<2, TRUE>>, <<2, FALSE>>, <<NaT, FALSE>>}, MaxPRs)}

\* a pull request row with a given number of review comments
ReviewedPR(n, review_comments) ==
    With(CollectedPR(n, 1, 2, TRUE),
         [review_comments |-> review_comments, total_comments |-> review_comments + 1])
ReviewedPRTables ==
    {[i \in 1..Len(ks) |-> ReviewedPR(i, ks[i])] : ks \in SeqsUpTo({0, 2}, MaxTimedPRs)}

\* a pull request row with a given author and given reviewers
ReviewerPR(n, author, reviewers) ==
    With(CollectedPR(n, 1, 2, TRUE), [author |-> author, reviewers |-> reviewers])
ReviewerPRTables ==
    {[i \in 1..Len(ks) |-> ReviewerPR(i, ks[i][1], ks[i][2])] :
        ks \in SeqsUpTo({<<"alice", <<"alice">>>>, <<"alice", <<"bob">>>>,
                         <<"bob", <<"alice", "bob">>>>, <<"bob", <<>>>>}, MaxRows)}

\* pull requests created in one week, in the next, and a year after the first
TicksPerYear == WeeksPerYear * 7 * TicksPerDay
YearPRTables ==
    {[i \in 1..Len(ks) |-> CollectedPR(i, ks[i], NaT, FALSE)] :
        ks \in SeqsUpTo({1, 1 + 7 * TicksPerDay, 1 + TicksPerYear}, MaxRows)}

\* commits and pull requests of the period by author: counts[a] rows each
CommitsByAuthor(counts) ==
    Flatten([i \in 1..Len(Logins) |->
                [j \in 1..counts[Logins[i]] |-> AuthoredCommit(10 * i + j, MaxTime, Logins[i])]])
PRsByAuthor(counts) ==
    Flatten([i \in 1..Len(Logins) |->
                [j \in 1..counts[Logins[i]] |->
                    With(CollectedPR(10 * i + j, MaxTime, NaT, FALSE),
                         [author |-> Logins[i]])]])
ContributorTables ==
    {[EmptyData EXCEPT !.commits = CommitsByAuthor(counts),
                       !.pull_requests = PRsByAuthor(counts)] :
        counts \in [Range(Logins) -> 1..MaxRowsPerAuthor]}

invoke_deployment_frequency ==
    /\ instance.class = "DORAMetrics"
    /\ Len(calls) < 2
    /\ calls' = Called("deployment_frequency",
                       deployment_frequency(instance.deployments, collection_days, now))
    /\ UNCHANGED <<pipelineVars, now, tables, instance>>

invoke_lead_time_for_changes ==
    /\ instance.class = "DORAMetrics"
    /\ Len(calls) < 2
    /\ calls' = Called("lead_time_for_changes",
                       lead_time_for_changes(instance.pull_requests))
    /\ UNCHANGED <<pipelineVars, now, tables, instance>>

invoke_mean_time_to_recovery ==
    /\ instance.class = "DORAMetrics"
    /\ Len(calls) < 2
    /\ calls' = Called("mean_time_to_recovery", mean_time_to_recovery(instance.issues))
    /\ UNCHANGED <<pipelineVars, now, tables, instance>>

invoke_change_failure_rate ==
    /\ instance.class = "DORAMetrics"
    /\ Len(calls) < 2
    /\ calls' = Called("change_failure_rate",
                       change_failure_rate(instance.deployments, instance.issues,
                                           collection_days, now))
    /\ UNCHANGED <<pipelineVars, now, tables, instance>>

invoke_cycle_time_analysis ==
    /\ instance.class = "PRMetrics"
    /\ Len(calls) < 2
    /\ calls' = Called("cycle_time_analysis", cycle_time_analysis(instance.prs))
    /\ UNCHANGED <<pipelineVars, now, tables, instance>>

invoke_review_analysis ==
    /\ instance.class = "PRMetrics"
    /\ Len(calls) < 2
    /\ calls' = Called("review_analysis", review_analysis(instance.prs))
    /\ UNCHANGED <<pipelineVars, now, tables, instance>>

invoke_merge_analysis ==
    /\ instance.class = "PRMetrics"
    /\ Len(calls) < 2
    /\ calls' = Called("merge_analysis", merge_analysis(instance.prs))
    /\ UNCHANGED <<pipelineVars, now, tables, instance>>

invoke_developer_activity ==
    /\ instance.class = "ProductivityMetrics"
    /\ Len(calls) < 2
    /\ calls' = Called("developer_activity",
                       developer_activity(instance.commits, instance.pull_requests,
                                          collection_days, now))
    /\ UNCHANGED <<pipelineVars, now, tables, instance>>

\* code_quality_trends writes the week column into the table the object holds
invoke_code_quality_trends ==
    /\ instance.class = "ProductivityMetrics"
    /\ Len(calls) < 2
    /\ calls' = Called("code_quality_trends", code_quality_trends(instance.pull_requests))
    /\ instance' = IF empty(instance.pull_requests)
                      \/ "created_at" \notin Columns(instance.pull_requests)
                   THEN instance
                   ELSE [instance EXCEPT !.pull_requests = AssignWeek(@)]
    /\ UNCHANGED <<pipelineVars, now, tables>>

invoke_collaboration_metrics ==
    /\ instance.class = "ProductivityMetrics"
    /\ Len(calls) < 2
    /\ calls' = Called("collaboration_metrics",
                       collaboration_metrics(instance.pull_requests))
    /\ UNCHANGED <<pipelineVars, now, tables, instance>>

InitMethods ==
    /\ repositories = <<>>
    /\ fetch_fails = [r \in Repos |-> "none"]
    /\ run = 1
    /\ ts = NoTaskState
    /\ started = <<>>
    /\ idx = 0
    /\ window = NoWindow
    /\ all_data = EmptyData
    /\ attempted = <<>>
    /\ error_log = {}
    /\ xcom = NoXCom
    /\ latest_file = None
    /\ dated_files = [d \in 0..MaxDate |-> None]
    /\ run_reports = <<>>
    /\ charts = {}
    /\ calls = <<>>
    /\ \/ /\ tables \in {[EmptyData EXCEPT !.deployments = d, !.issues = i] :
                            d \in DeploymentRuns, i \in FlaggedIssueTables}
          /\ collection_days \in 1..MaxPeriod
          /\ now \in MaxTime..MaxClock
          /\ instance = DORAMetrics(tables)
       \/ /\ tables \in {[EmptyData EXCEPT !.pull_requests = p] : p \in TimedPRTables}
          /\ collection_days = 1
          /\ now = MaxTime
          /\ instance \in {DORAMetrics(tables), PRMetrics(tables.pull_requests)}
       \/ /\ tables \in {[EmptyData EXCEPT !.pull_requests = p] :
                            p \in MergePRTables \cup ReviewedPRTables}
          /\ collection_days = 1
          /\ now = MaxTime
          /\ instance = PRMetrics(tables.pull_requests)
       \/ /\ tables \in {[EmptyData EXCEPT !.pull_requests = p] : p \in PRTables}
                        \cup {[EmptyData EXCEPT !.commits = c] : c \in AuthoredCommitTables}
          /\ collection_days \in 1..MaxPeriod
          /\ now \in MaxTime..MaxClock
          /\ instance = ProductivityMetrics(tables)
       \/ /\ tables \in {[EmptyData EXCEPT !.pull_requests = p] : p \in ReviewerPRTables}
                        \cup ContributorTables
          /\ collection_days = 1
          /\ now = MaxTime
          /\ instance = ProductivityMetrics(tables)
       \/ /\ tables \in {[EmptyData EXCEPT !.pull_requests = p] : p \in YearPRTables}
          /\ collection_days = 1
          /\ now = TicksPerYear + MaxTime
          /\ instance = ProductivityMetrics(tables)

NextMethods ==
    \/ invoke_deployment_frequency
    \/ invoke_lead_time_for_changes
    \/ invoke_mean_time_to_recovery
    \/ invoke_change_failure_rate
    \/ invoke_cycle_time_analysis
    \/ invoke_review_analysis
    \/ invoke_merge_analysis
    \/ invoke_developer_activity
    \/ invoke_code_quality_trends
    \/ invoke_collaboration_metrics

\* calculator objects over bounded tables and the calls of their methods
MethodSpec == InitMethods /\ [][NextMethods]_vars

\* ------------------------------------------------------- collector calls
\* GitHubCollector as a library: one repository of the data source and
\* calls of collect_pull_requests, collect_issues and collect_deployments
\* with a window, a state and a user filter.  tables holds what the
\* repository yields: the objects of get_pulls, get_issues and
\* get_deployments in the order the data source iterates them.
MaxRaw == 3

StateOf(closed) == IF closed THEN "closed" ELSE "open"

RawPull(n, updated, closed) ==
    With(RawPulls("org/a")[1],
         [id |-> n, number |-> n, state |-> StateOf(closed), created_at |-> 1,
          updated_at |-> updated, closed_at |-> IF closed THEN updated ELSE NaT,
          merged_at |-> IF closed THEN updated ELSE NaT, merged |-> closed,
          user |-> Logins[n]])

\* the issues endpoint lists pull requests too, marked by pull_request
RawIssue(n, updated, closed, pull_request) ==
    With(RawIssues("org/a")[1],
         [id |-> n, number |-> n, state |-> StateOf(closed), created_at |-> 1,
          updated_at |-> updated, closed_at |-> IF closed THEN updated ELSE NaT,
          user |-> Logins[n], pull_request |-> pull_request])

RawDeployment(n, created) ==
    With(RawDeployments("org/a")[1],
         [id |-> n, created_at |-> created, updated_at |-> created, creator |-> Logins[n]])

\* one repository: the same timestamps for its three lists
RawRepository(kinds) ==
    [EmptyData EXCEPT
        !.pull_requests = [i \in 1..Len(kinds) |-> RawPull(i, kinds[i][1], kinds[i][2])],
        !.issues = [i \in 1..Len(kinds) |-> RawIssue(i, kinds[i][1], kinds[i][2], kinds[i][3])],
        !.deployments = [i \in 1..Len(kinds) |-> RawDeployment(i, kinds[i][1])]]

RawRepositories ==
    {RawRepository(kinds) : kinds \in SeqsUpTo((1..3) \X BOOLEAN \X BOOLEAN, MaxRaw)}

\* the windows, states and user filters of the calls
Windows == {<<2, 2>>, <<1, 3>>}
States == {"all", "closed"}
UserFilters == {NoUserFilter, {"alice", "carol"}}

\* repo.get_pulls(state=state, ...) and repo.get_issues(state=state, ...):
\* the data source yields the objects of that state
OfState(raw, state) == SelectSeq(raw, LAMBDA o : state = "all" \/ o.state = state)

CollectorCalled(method, since, until, state, user_filter, result) ==
    Append(calls, [method |-> method, at |-> now, since |-> since, until |-> until,
                   state |-> state, user_filter |-> user_filter, result |-> result])

call_collect_pull_requests ==
    /\ Len(calls) < 1
    /\ \E w \in Windows, state \in States, user_filter \in UserFilters :
          calls' = CollectorCalled("collect_pull_requests", w[1], w[2], state, user_filter,
                       collect_pull_requests(OfState(tables.pull_requests, state),
                                             w[1], w[2], user_filter))
    /\ UNCHANGED <<pipelineVars, now, tables, instance>>

call_collect_issues ==
    /\ Len(calls) < 1
    /\ \E w \in Windows, state \in States, user_filter \in UserFilters :
          calls' = CollectorCalled("collect_issues", w[1], w[2], state, user_filter,
                       collect_issues(OfState(tables.issues, state), w[1], w[2], user_filter))
    /\ UNCHANGED <<pipelineVars, now, tables, instance>>

call_collect_deployments ==
    /\ Len(calls) < 1
    /\ \E w \in Windows, user_filter \in UserFilters :
          calls' = CollectorCalled("collect_deployments", w[1], w[2], "all", user_filter,
                       collect_deployments(tables.deployments, w[1], w[2], user_filter))
    /\ UNCHANGED <<pipelineVars, now, tables, instance>>

InitCollector ==
    /\ repositories = <<"org/a">>
    /\ collection_days = 1
    /\ fetch_fails = [r \in Repos |-> "none"]
    /\ now = MaxTime
    /\ run = 1
    /\ ts = NoTaskState
    /\ started = <<>>
    /\ idx = 0
    /\ window = NoWindow
    /\ all_data = EmptyData
    /\ attempted = <<>>
    /\ error_log = {}
    /\ xcom = NoXCom
    /\ latest_file = None
    /\ dated_files = [d \in 0..MaxDate |-> None]
    /\ run_reports = <<>>
    /\ charts = {}
    /\ tables \in RawRepositories
    /\ calls = <<>>
    /\ instance = [class |-> "GitHubCollector"]

NextCollector ==
    \/ call_collect_pull_requests
    \/ call_collect_issues
    \/ call_collect_deployments

CollectorSpec == InitCollector /\ [][NextCollector]_vars

\* ================================================================= claims

\* the dataset extract_github_data handed over
github_data == xcom_pull("extract_github_data", "github_data")

\* the positions of the repository list whose collection raises
FailingPositions ==
    {i \in 1..Len(repositories) :
        TryCollect(EmptyData, repositories[i], window.since, window.until).raised}

\* the extraction is over and left no usable repository: none configured, or
\* every one of them failed
NoDataRun ==
    /\ ts["extract_github_data"] = "success"
    /\ error_log = 1..Len(repositories)

\* ------------------------------------------------------------------- C1
\* C1: in extract_github_data an exception raised while collecting one
\* repository is caught and logged and does not abort the run: the task never
\* fails, while it runs it has attempted exactly the repositories before its
\* position, and when it is done it has attempted every repository of the
\* list in order and logged every collection that raised.
C1_FailureDoesNotAbortExtraction ==
    /\ ts["extract_github_data"] # "failed"
    /\ ts["extract_github_data"] = "running" =>
          /\ idx \in 1..(Len(repositories) + 1)
          /\ attempted = SubSeq(repositories, 1, idx - 1)
          /\ error_log = {i \in FailingPositions : i < idx}
    /\ ts["extract_github_data"] = "success" =>
          /\ attempted = repositories
          /\ error_log = FailingPositions

\* a collection failed and a repository later in the list was still attempted
C1_LaterRepositoryProcessed ==
    /\ ts["extract_github_data"] = "success"
    /\ Len(repositories) >= 2
    /\ 1 \in error_log
    /\ Len(attempted) = Len(repositories)
    /\ attempted[2] = repositories[2]

C3_DeliverableRepositoryCollected ==
    ts["extract_github_data"] = "success" =>
        \A i \in 1..Len(repositories) :
            LET repo == repositories[i]
                since == window.since
                until == window.until
            IN  fetch_fails[repo] = "none" =>
                  /\ Range(Tagged(collect_pull_requests(RawPulls(repo), since, until, NoUserFilter), repo))
                        \subseteq Range(github_data.pull_requests)
                  /\ Range(Tagged(collect_deployments(RawDeployments(repo), since, until, NoUserFilter), repo))
                        \subseteq Range(github_data.deployments)
                  /\ Range(Tagged(collect_issues(RawIssues(repo), since, until, NoUserFilter), repo))
                        \subseteq Range(github_data.issues)
                  /\ Range(Tagged(collect_commits(RawCommits(repo), since, until), repo))
                        \subseteq Range(github_data.commits)

\* ------------------------------------------------------------------- C4
\* C4: a run that is left without a usable repository (none configured, or
\* every collection failed) still completes: no calculator task and no later
\* task fails, the run does not come to rest before store_metrics and
\* generate_dashboard_data have succeeded, and the stored report has exactly
\* the keys timestamp, dora_metrics, pr_metrics, productivity_metrics and
\* collection_period_days.
C4_NoDataRunCompletes ==
    NoDataRun =>
        /\ \A t \in Tasks : ts[t] # "failed"
        /\ RunOver => /\ ts["store_metrics"] = "success"
                      /\ ts["generate_dashboard_data"] = "success"
        /\ ts["store_metrics"] = "success" =>
              /\ DOMAIN latest_file =
                    {"timestamp", "dora_metrics", "pr_metrics", "productivity_metrics",
                     "collection_period_days"}
              /\ xcom_pull("store_metrics", "all_metrics") = latest_file

\* every configured repository failed and the run is over with its report
C4_AllFailedRunStored ==
    /\ NoDataRun
    /\ Len(repositories) >= 1
    /\ RunOver
    /\ ts["store_metrics"] = "success"
    /\ "dora_metrics" \in DOMAIN latest_file

\* ------------------------------------------------------------------- C5
\* C5: in the report of a run that collected no data, each of the sections
\* dora_metrics, pr_metrics and productivity_metrics carries an explicit
\* no-data marker: a key that says so in the section or in one of the
\* results it holds.
C5_NoDataSectionsMarked ==
    (NoDataRun /\ ts["store_metrics"] = "success") =>
        LET Markers == {"error", "no_data", "insufficient_data", "message"}
            Marked(d) == Markers \cap DOMAIN d # {}
            Scalars == {"calculated_at", "period_days"}
            SectionMarked(section) ==
                \/ Marked(section)
                \/ \E k \in DOMAIN section \ Scalars : Marked(section[k])
        IN  /\ SectionMarked(latest_file.dora_metrics)
            /\ SectionMarked(latest_file.pr_metrics)
            /\ SectionMarked(latest_file.productivity_metrics)

\* ------------------------------------------------------------------- C7
\* C7: in every run no calculator task has started unless
\* extract_github_data has finished, store_metrics has not started unless
\* all three calculator tasks have finished, and generate_dashboard_data has
\* not started unless store_metrics has finished.
C7_TaskOrdering ==
    LET Finished(t) == ts[t] \in {"success", "failed"}
        Begun(t) == ts[t] # "none"
    IN  /\ \A c \in Calculators : Begun(c) => Finished("extract_github_data")
        /\ Begun("store_metrics") => \A c \in Calculators : Finished(c)
        /\ Begun("generate_dashboard_data") => Finished("store_metrics")
        /\ \A k \in 1..Len(started) :
              /\ started[k] \in Calculators => started[1] = "extract_github_data"
              /\ started[k] = "store_metrics" =>
                    Calculators \subseteq {started[j] : j \in 1..(k - 1)}
              /\ started[k] = "generate_dashboard_data" =>
                    "store_metrics" \in {started[j] : j \in 1..(k - 1)}

\* all six tasks of a run have run
C7_WholeRunOrdered ==
    /\ Len(started) = 6
    /\ ts["generate_dashboard_data"] = "success"

\* ------------------------------------------------------------------- C8
\* C8: whatever the order in which the three calculator tasks ran, the
\* extracted dataset is still the one the extraction left, and each section
\* of the stored report is what its own calculator computes from that
\* dataset alone at the moment it ran.
C8_CalculatorsIndependent ==
    ts["store_metrics"] = "success" =>
        LET report == latest_file
            dora == report.dora_metrics
            productivity == report.productivity_metrics
            commits == DataFrame(github_data, "commits")
            pull_requests == DataFrame(github_data, "pull_requests")
        IN  /\ github_data = all_data
            /\ "calculated_at" \in DOMAIN dora
            /\ dora = get_all_dora_metrics(github_data, collection_days, dora.calculated_at)
            /\ report.pr_metrics = OrEmpty(pr_task(github_data))
            /\ DOMAIN productivity =
                  {"developer_activity", "code_quality_trends", "collaboration_metrics"}
            /\ "calculated_at" \in DOMAIN productivity.developer_activity
            /\ productivity.developer_activity =
                  developer_activity(commits, pull_requests, collection_days,
                                     productivity.developer_activity.calculated_at)
            /\ productivity.code_quality_trends = code_quality_trends(pull_requests)
            /\ productivity.collaboration_metrics = collaboration_metrics(pull_requests)

\* the report of a run whose calculators ran in the order productivity, PR,
\* DORA, the last one at a later moment than the first
C8_ReverseOrderStored ==
    /\ ts["store_metrics"] = "success"
    /\ started[2] = "calculate_productivity_metrics"
    /\ started[3] = "calculate_pr_metrics"
    /\ started[4] = "calculate_dora_metrics"
    /\ latest_file.dora_metrics.calculated_at >
          latest_file.productivity_metrics.developer_activity.calculated_at

\* ------------------------------------------------------------------- C6
\* C6: on every non-empty issue table whose rows carry exactly the fields
\* the collector's issue extraction produces, mean_time_to_recovery() and
\* change_failure_rate() return a result instead of raising, and so does the
\* DORA calculation of a run over that table.
C6_CollectedIssuesDoNotRaise ==
    (tables.issues \in CollectedIssueTables /\ ~empty(tables.issues)) =>
        \A k \in 1..Len(calls) :
            /\ calls[k].method \in {"mean_time_to_recovery", "change_failure_rate"} =>
                  ~IsRaise(calls[k].result)
            /\ calls[k].method = "calculators" =>
                  ~IsRaise(calls[k].result.dora_metrics)

\* ------------------------------------------------------------------- C9
\* C9 as stated: after any sequence of runs the latest file holds the report
\* of the most recent run, and the report of every run is still held by a
\* dated copy.
C9_EveryRunKeepsDatedCopy ==
    run_reports # <<>> =>
        /\ latest_file = run_reports[Len(run_reports)]
        /\ \A k \in 1..Len(run_reports) :
              \E d \in DOMAIN dated_files : dated_files[d] = run_reports[k]

\* C9: after any sequence of runs the latest file holds the report of the
\* most recent run, and the dated copy of each date holds the report of the
\* last run stored on that date (none if no run stored on it): a later run
\* replaces the latest file and the dated copy of its own date only.
C9_DatedCopyHoldsLastRunOfDate ==
    /\ run_reports = <<>> => latest_file = None
    /\ run_reports # <<>> => latest_file = run_reports[Len(run_reports)]
    /\ \A d \in DOMAIN dated_files :
          LET onDate == {k \in 1..Len(run_reports) :
                            strftime_date(run_reports[k].timestamp) = d}
          IN  IF onDate = {} THEN dated_files[d] = None
              ELSE \E k \in onDate :
                      /\ \A j \in onDate : j <= k
                      /\ dated_files[d] = run_reports[k]

\* two runs stored different reports on the same date, and the dated copy of
\* that date holds the second one
C9_SecondRunOfDateStored ==
    /\ Len(run_reports) = 2
    /\ run_reports[1] # run_reports[2]
    /\ strftime_date(run_reports[1].timestamp) = strftime_date(run_reports[2].timestamp)
    /\ dated_files[strftime_date(run_reports[2].timestamp)] = run_reports[2]
    /\ latest_file = run_reports[2]

\* ------------------------------------------------------------------ C10
\* C10 as stated: two runs of the calculators over the same dataset, at
\* whatever moments, give the same value in every field but calculated_at.
C10_SameValuesAtAnyMoments ==
    LET WithoutCalculatedAt(d) ==
            IF IsRaise(d) \/ d = None THEN d
            ELSE [k \in DOMAIN d \ {"calculated_at"} |-> d[k]]
        Values(r) ==
            [dora_metrics |-> WithoutCalculatedAt(r.dora_metrics),
             pr_metrics |-> r.pr_metrics,
             productivity_metrics |->
                IF IsRaise(r.productivity_metrics) \/ r.productivity_metrics = None
                THEN r.productivity_metrics
                ELSE [r.productivity_metrics EXCEPT
                        !.developer_activity = WithoutCalculatedAt(@)]]
    IN  \A j, k \in 1..Len(calls) :
            (calls[j].method = "calculators" /\ calls[k].method = "calculators") =>
                Values(calls[j].result) = Values(calls[k].result)

\* C10: two runs of the calculators over the same dataset give the same
\* value in every field but calculated_at if the same rows lie in the
\* collection period [now - period_days, now] at both moments; at any two
\* moments they give the same PR metrics, lead time, recovery time, code
\* quality trends and collaboration metrics, and raise in the same tasks.
C10_SameValuesForSamePeriodRows ==
    LET WithoutCalculatedAt(d) ==
            IF IsRaise(d) \/ d = None THEN d
            ELSE [k \in DOMAIN d \ {"calculated_at"} |-> d[k]]
        Values(r) ==
            [dora_metrics |-> WithoutCalculatedAt(r.dora_metrics),
             pr_metrics |-> r.pr_metrics,
             productivity_metrics |->
                IF IsRaise(r.productivity_metrics) \/ r.productivity_metrics = None
                THEN r.productivity_metrics
                ELSE [r.productivity_metrics EXCEPT
                        !.developer_activity = WithoutCalculatedAt(@)]]
        RowsInPeriod(df, col, t) ==
            IF col \notin Columns(df) THEN {}
            ELSE {i \in 1..Len(df) :
                    InPeriod(df[i][col], t - timedelta(collection_days), t)}
        PeriodRows(t) ==
            <<RowsInPeriod(tables.deployments, "created_at", t),
              RowsInPeriod(tables.issues, "created_at", t),
              RowsInPeriod(tables.commits, "date", t),
              RowsInPeriod(tables.pull_requests, "created_at", t)>>
        Part(section, key) ==
            IF IsRaise(section) \/ section = None THEN section ELSE section[key]
    IN  \A j, k \in 1..Len(calls) :
            (calls[j].method = "calculators" /\ calls[k].method = "calculators") =>
                LET a == calls[j].result
                    b == calls[k].result
                IN  /\ PeriodRows(calls[j].at) = PeriodRows(calls[k].at) =>
                          Values(a) = Values(b)
                    /\ a.pr_metrics = b.pr_metrics
                    /\ IsRaise(a.dora_metrics) <=> IsRaise(b.dora_metrics)
                    /\ Part(a.dora_metrics, "lead_time_for_changes") =
                          Part(b.dora_metrics, "lead_time_for_changes")
                    /\ Part(a.dora_metrics, "mean_time_to_recovery") =
                          Part(b.dora_metrics, "mean_time_to_recovery")
                    /\ IsRaise(a.productivity_metrics) <=> IsRaise(b.productivity_metrics)
                    /\ Part(a.productivity_metrics, "code_quality_trends") =
                          Part(b.productivity_metrics, "code_quality_trends")
                    /\ Part(a.productivity_metrics, "collaboration_metrics") =
                          Part(b.productivity_metrics, "collaboration_metrics")

\* the calculators ran at two moments over a dataset with a deployment that
\* lies in the collection period at both, and counted it both times
C10_TwoMomentsSamePeriodRows ==
    /\ Len(calls) = 2
    /\ calls[1].method = "calculators"
    /\ calls[2].method = "calculators"
    /\ calls[1].at < calls[2].at
    /\ ~IsRaise(calls[1].result.dora_metrics)
    /\ ~IsRaise(calls[2].result.dora_metrics)
    /\ calls[1].result.dora_metrics.deployment_frequency.total_deployments > 0
    /\ calls[2].result.dora_metrics.deployment_frequency.total_deployments > 0

\* C11: no invocation of a calculator method changes the tables the object
\* holds: after any sequence of invocations the object is still the object
\* its constructor made of the dataset.
C11_NoInvocationChangesTables ==
    /\ instance.class = "DORAMetrics" => instance = DORAMetrics(tables)
    /\ instance.class = "PRMetrics" => instance = PRMetrics(tables.pull_requests)
    /\ instance.class = "ProductivityMetrics" => instance = ProductivityMetrics(tables)

\* the calls of one method made on the object so far
CallsOf(method) == {k \in 1..Len(calls) : calls[k].method = method}

\* the rows of a table created in [now - period_days, now]
CreatedInPeriod(table) ==
    {i \in 1..Len(table) :
        /\ table[i].created_at >= now - collection_days * TicksPerDay
        /\ table[i].created_at <= now}

\* C12: for every period p > 0 with no deployment in the period (empty table,
\* or every deployment created outside [now - p, now]) deployment_frequency(p)
\* returns total 0, per-day rate 0 and per-week rate 0 and does not raise.
C12_NoDeploymentsGivesZeros ==
    \A k \in CallsOf("deployment_frequency") :
        (collection_days > 0 /\ CreatedInPeriod(tables.deployments) = {}) =>
            /\ ~IsRaise(calls[k].result)
            /\ calls[k].result.total_deployments = 0
            /\ calls[k].result.deployments_per_day = 0
            /\ calls[k].result.deployments_per_week = 0

\* deployment_frequency was called on a table whose deployments all lie
\* outside the period
C12_AllDeploymentsOutsidePeriod ==
    /\ CallsOf("deployment_frequency") # {}
    /\ tables.deployments # <<>>
    /\ CreatedInPeriod(tables.deployments) = {}

\* |a - b|
Distance(a, b) == IF a >= b THEN a - b ELSE b - a

\* C13 as stated: deployment_frequency counts exactly the deployments created
\* in [now - period_days, now], and the returned per-day rate is
\* count / period_days and the returned per-week rate is the per-day rate
\* times 7 (rates in hundredths).
C13_RatesAreExactQuotients ==
    \A k \in CallsOf("deployment_frequency") :
        /\ calls[k].result.total_deployments = Cardinality(CreatedInPeriod(tables.deployments))
        /\ calls[k].result.deployments_per_day * collection_days
              = 100 * calls[k].result.total_deployments
        /\ calls[k].result.deployments_per_week
              = 7 * calls[k].result.deployments_per_day

\* C13 amended: the count is exact; the per-day rate is count / period_days
\* and the per-week rate is 7 * count / period_days, each rounded to two
\* decimals (within half a hundredth of the quotient).
C13_RatesAreRoundedQuotients ==
    \A k \in CallsOf("deployment_frequency") :
        /\ calls[k].result.total_deployments = Cardinality(CreatedInPeriod(tables.deployments))
        /\ 2 * Distance(calls[k].result.deployments_per_day * collection_days,
                        100 * calls[k].result.total_deployments) <= collection_days
        /\ 2 * Distance(calls[k].result.deployments_per_week * collection_days,
                        700 * calls[k].result.total_deployments) <= collection_days

\* deployment_frequency returned rates that rounding moved off the quotients
C13_RoundedRatesReturned ==
    \E k \in CallsOf("deployment_frequency") :
        /\ calls[k].result.total_deployments > 0
        /\ calls[k].result.deployments_per_day * collection_days
              # 100 * calls[k].result.total_deployments
        /\ calls[k].result.deployments_per_week
              # 7 * calls[k].result.deployments_per_day

\* the pull requests with merged == true and a defined cycle time
MergedWithCycleTime(prs) ==
    {i \in 1..Len(prs) : prs[i].merged = TRUE /\ prs[i].cycle_time_hours # NaN}

\* the k-th smallest cycle time among the rows idxs of a table
OrderStatistic(prs, idxs, k) ==
    CHOOSE x \in {prs[i].cycle_time_hours : i \in idxs} :
        /\ Cardinality({i \in idxs : prs[i].cycle_time_hours < x}) < k
        /\ k <= Cardinality({i \in idxs : prs[i].cycle_time_hours <= x})

\* the sum of the cycle times of the rows idxs
RECURSIVE CycleTimeSum(_, _)
CycleTimeSum(prs, idxs) ==
    IF idxs = {} THEN 0
    ELSE LET i == CHOOSE j \in idxs : TRUE
         IN  prs[i].cycle_time_hours + CycleTimeSum(prs, idxs \ {i})

\* the linearly interpolated percentile of the rows idxs, in hundredths
InterpolatedPercentile(prs, idxs, pct) ==
    LET n == Cardinality(idxs)
        lo == ((n - 1) * pct) \div 100 + 1
        frac == ((n - 1) * pct) % 100
        hi == IF lo < n THEN lo + 1 ELSE n
    IN  100 * OrderStatistic(prs, idxs, lo)
          + frac * (OrderStatistic(prs, idxs, hi) - OrderStatistic(prs, idxs, lo))

\* the median of the rows idxs, in hundredths
MedianOf(prs, idxs) ==
    LET n == Cardinality(idxs)
    IN  50 * (OrderStatistic(prs, idxs, (n + 1) \div 2)
              + OrderStatistic(prs, idxs, (n + 2) \div 2))

\* three merged pull requests with cycle times 10h, 20h and 30h
ThreeMergedPRs(prs) ==
    /\ Len(prs) = 3
    /\ MergedWithCycleTime(prs) = {1, 2, 3}
    /\ {prs[i].cycle_time_hours : i \in 1..3} = {10, 20, 30}

\* C14: lead_time_for_changes computes over exactly the pull requests with
\* merged == true and a defined cycle time: total_merged_prs is their count
\* and mean, median and p95 are the mean, the median and the linearly
\* interpolated 95th percentile of their cycle times (two decimals); for
\* cycle times 10h, 20h, 30h it returns 20.0, 20.0, 29.0 and 3.
C14_LeadTimeOverMergedPRs ==
    \A k \in CallsOf("lead_time_for_changes") :
        LET prs == tables.pull_requests
            valid == MergedWithCycleTime(prs)
            r == calls[k].result
        IN  /\ r.total_merged_prs = Cardinality(valid)
            /\ valid # {} =>
                /\ 2 * Distance(r.mean_lead_time_hours * Cardinality(valid),
                                100 * CycleTimeSum(prs, valid)) <= Cardinality(valid)
                /\ r.median_lead_time_hours = MedianOf(prs, valid)
                /\ r.p95_lead_time_hours = InterpolatedPercentile(prs, valid, 95)
            /\ ThreeMergedPRs(prs) =>
                r = [mean_lead_time_hours |-> 2000, median_lead_time_hours |-> 2000,
                     p95_lead_time_hours |-> 2900, total_merged_prs |-> 3]

\* lead_time_for_changes was called on the three pull requests of the example
C14_ExampleCalled ==
    /\ CallsOf("lead_time_for_changes") # {}
    /\ ThreeMergedPRs(tables.pull_requests)

\* C15: for every non-empty set of merged pull requests with defined cycle
\* times the reported median lead time is at most the reported p95 lead time,
\* and the reported cycle-time statistics satisfy min <= mean <= max and
\* median <= p75 <= p95 <= max.
C15_StatisticsOrdered ==
    /\ \A k \in CallsOf("lead_time_for_changes") :
          MergedWithCycleTime(tables.pull_requests) # {} =>
              calls[k].result.median_lead_time_hours <= calls[k].result.p95_lead_time_hours
    /\ \A k \in CallsOf("cycle_time_analysis") :
          LET r == calls[k].result
          IN  {i \in 1..Len(tables.pull_requests) :
                  tables.pull_requests[i].cycle_time_hours # NaN} # {} =>
                /\ r.min_cycle_time_hours <= r.mean_cycle_time_hours
                /\ r.mean_cycle_time_hours <= r.max_cycle_time_hours
                /\ r.median_cycle_time_hours <= r.p75_cycle_time_hours
                /\ r.p75_cycle_time_hours <= r.p95_cycle_time_hours
                /\ r.p95_cycle_time_hours <= r.max_cycle_time_hours

\* cycle_time_analysis was called on pull requests whose cycle times differ
C15_DistinctCycleTimesAnalysed ==
    \E k \in CallsOf("cycle_time_analysis") :
        /\ "error" \notin DOMAIN calls[k].result
        /\ calls[k].result.min_cycle_time_hours < calls[k].result.median_cycle_time_hours
        /\ calls[k].result.median_cycle_time_hours < calls[k].result.p95_cycle_time_hours

\* C16: on empty input the DORA methods return their all-zero result and do
\* not raise: with an empty issue table mean_time_to_recovery returns mean 0,
\* median 0 and total_incidents 0, and with an empty pull request table, or
\* no merged pull request with a defined cycle time, lead_time_for_changes
\* returns mean 0, median 0, p95 0 and total_merged_prs 0.
C16_EmptyInputGivesZeros ==
    /\ \A k \in CallsOf("mean_time_to_recovery") :
          tables.issues = <<>> =>
              calls[k].result = [mean_recovery_time_hours |-> 0,
                                 median_recovery_time_hours |-> 0,
                                 total_incidents |-> 0]
    /\ \A k \in CallsOf("lead_time_for_changes") :
          MergedWithCycleTime(tables.pull_requests) = {} =>
              calls[k].result = [mean_lead_time_hours |-> 0,
                                 median_lead_time_hours |-> 0,
                                 p95_lead_time_hours |-> 0,
                                 total_merged_prs |-> 0]

\* both methods were called on an object with an empty issue table and a
\* pull request table without a merged pull request
C16_BothCalledWithoutValidRows ==
    /\ CallsOf("mean_time_to_recovery") # {}
    /\ CallsOf("lead_time_for_changes") # {}
    /\ tables.issues = <<>>
    /\ tables.pull_requests # <<>>
    /\ MergedWithCycleTime(tables.pull_requests) = {}

\* the bug issues created in [now - period_days, now]
BugsInPeriod == {i \in CreatedInPeriod(tables.issues) : tables.issues[i].is_bug = TRUE}

WithCycleTime(prs) == {i \in 1..Len(prs) : prs[i].cycle_time_hours # NaN}

\* the closed bug or incident issues with both timestamps
ClosedIncidents(issues) ==
    {i \in 1..Len(issues) :
        /\ issues[i].state = "closed"
        /\ (issues[i].is_bug = TRUE \/ issues[i].is_incident = TRUE)
        /\ issues[i].created_at # NaT
        /\ issues[i].closed_at # NaT}

\* the commits dated in [now - period_days, now]
CommitsInPeriod(commits) ==
    {i \in 1..Len(commits) :
        /\ commits[i].date >= now - collection_days * TicksPerDay
        /\ commits[i].date <= now}

\* a result that carries the error key
IsError(r) == "error" \in DOMAIN r

MergedPRs(prs) == {i \in 1..Len(prs) : prs[i].merged = TRUE}
ClosedUnmergedPRs(prs) ==
    {i \in 1..Len(prs) : prs[i].state = "closed" /\ prs[i].merged = FALSE}
OpenPRs(prs) == {i \in 1..Len(prs) : prs[i].state = "open"}

\* five pull requests: three merged, one closed without merge, one open
FivePRsExample(prs) ==
    /\ Len(prs) = 5
    /\ Cardinality(MergedPRs(prs)) = 3
    /\ Cardinality(ClosedUnmergedPRs(prs)) = 1
    /\ Cardinality(OpenPRs(prs)) = 1

\* the fields of a merge_analysis result
MergeFields ==
    {"total_prs", "merged_prs", "closed_unmerged_prs", "open_prs",
     "merge_rate", "rejection_rate"}

\* the counts merge_analysis returns are the counts of the table
MergeCountsOf(r, prs) ==
    /\ r.total_prs = Len(prs)
    /\ r.merged_prs = Cardinality(MergedPRs(prs))
    /\ r.closed_unmerged_prs = Cardinality(ClosedUnmergedPRs(prs))
    /\ r.open_prs = Cardinality(OpenPRs(prs))

\* C20 as stated: merge_analysis returns the four counts, merge_rate =
\* merged_prs / total_prs and rejection_rate = closed_unmerged_prs /
\* total_prs, both rates being 0 when the total is 0; for 5 pull requests
\* (3 merged, 1 closed unmerged, 1 open) it returns 0.6, 0.2 and open_prs 1
\* (rates in thousandths).
C20_CountsAndExactRates ==
    \A k \in CallsOf("merge_analysis") :
        LET r == calls[k].result
            prs == tables.pull_requests
        IN  /\ MergeFields \subseteq DOMAIN r
            /\ MergeCountsOf(r, prs)
            /\ r.total_prs > 0 =>
                  /\ r.merge_rate * r.total_prs = 1000 * r.merged_prs
                  /\ r.rejection_rate * r.total_prs = 1000 * r.closed_unmerged_prs
            /\ r.total_prs = 0 => r.merge_rate = 0 /\ r.rejection_rate = 0
            /\ FivePRsExample(prs) =>
                  r.merge_rate = 600 /\ r.rejection_rate = 200 /\ r.open_prs = 1

\* C20 amended: for a non-empty table merge_analysis returns the four counts
\* and the two rates, each rate its count / total_prs rounded to three
\* decimals; for an empty table it returns the error result, without counts
\* or rates; for the 5 pull requests of the example it returns 0.6, 0.2 and
\* open_prs 1.
C20_CountsAndRoundedRates ==
    \A k \in CallsOf("merge_analysis") :
        LET r == calls[k].result
            prs == tables.pull_requests
        IN  /\ prs = <<>> => r = [error |-> "No PR data available"]
            /\ prs # <<>> =>
                  /\ DOMAIN r = MergeFields
                  /\ MergeCountsOf(r, prs)
                  /\ 2 * Distance(r.merge_rate * r.total_prs, 1000 * r.merged_prs)
                        <= r.total_prs
                  /\ 2 * Distance(r.rejection_rate * r.total_prs,
                                  1000 * r.closed_unmerged_prs) <= r.total_prs
            /\ FivePRsExample(prs) =>
                  r.merge_rate = 600 /\ r.rejection_rate = 200 /\ r.open_prs = 1

\* merge_analysis was called on the five pull requests of the example
C20_ExampleAnalysed ==
    /\ CallsOf("merge_analysis") # {}
    /\ FivePRsExample(tables.pull_requests)

\* the pull requests without a review comment
Unreviewed(prs) == {i \in 1..Len(prs) : prs[i].review_comments = 0}

\* C21: review_analysis reports prs_with_no_reviews = the number of pull
\* requests whose review_comments is 0 and total_prs = the number of pull
\* requests, so prs_with_no_reviews <= total_prs, and prs_with_no_reviews = N
\* when all N pull requests have review_comments = 0.
C21_UnreviewedCounted ==
    \A k \in CallsOf("review_analysis") :
        LET r == calls[k].result
            prs == tables.pull_requests
        IN  prs # <<>> =>
              /\ {"prs_with_no_reviews", "total_prs"} \subseteq DOMAIN r
              /\ r.prs_with_no_reviews = Cardinality(Unreviewed(prs))
              /\ r.total_prs = Len(prs)
              /\ r.prs_with_no_reviews <= r.total_prs
              /\ Unreviewed(prs) = 1..Len(prs) => r.prs_with_no_reviews = Len(prs)

\* review_analysis was called on several pull requests, none of them reviewed
C21_AllUnreviewed ==
    \E k \in CallsOf("review_analysis") :
        /\ Len(tables.pull_requests) > 1
        /\ Unreviewed(tables.pull_requests) = 1..Len(tables.pull_requests)
        /\ calls[k].result.prs_with_no_reviews = Len(tables.pull_requests)

\* the distinct (author, reviewer) pairs of a table with reviewer # author
PairsOfOthers(prs) ==
    {pair \in (Range(Logins) \cup {NoLogin}) \X Range(Logins) :
        /\ pair[1] # pair[2]
        /\ \E i \in 1..Len(prs) :
              prs[i].author = pair[1] /\ pair[2] \in Range(prs[i].reviewers)}

\* the pull requests reviewed by their own author
SelfReviewed(prs) == {i \in 1..Len(prs) : prs[i].author \in Range(prs[i].reviewers)}

\* C22: collaboration_metrics never counts a pair whose author equals its
\* reviewer: collaboration_pairs is the number of distinct (author, reviewer)
\* pairs over all pull requests with reviewer # author, a pair occurring on
\* several pull requests being counted once.
C22_SelfReviewsNotCounted ==
    \A k \in CallsOf("collaboration_metrics") :
        tables.pull_requests # <<>> =>
            /\ ~IsError(calls[k].result)
            /\ calls[k].result.collaboration_pairs
                   = Cardinality(PairsOfOthers(tables.pull_requests))

\* collaboration_metrics was called on two pull requests that carry the same
\* pair and a self-review each
C22_RepeatedPairWithSelfReview ==
    \E k \in CallsOf("collaboration_metrics") :
        /\ Len(tables.pull_requests) = 2
        /\ SelfReviewed(tables.pull_requests) = {1, 2}
        /\ PairsOfOthers(tables.pull_requests) = {<<"bob", "alice">>}
        /\ calls[k].result.collaboration_pairs = 1

\* the authors of the commits of the period, and the commits of each
PeriodCommitAuthors ==
    {tables.commits[i].author : i \in CommitsInPeriod(tables.commits)} \ {NoLogin}
PeriodCommitsOf(a) ==
    Cardinality({i \in CommitsInPeriod(tables.commits) : tables.commits[i].author = a})

\* the authors of the pull requests of the period, and the pull requests of each
PeriodPRAuthors ==
    {tables.pull_requests[i].author : i \in CreatedInPeriod(tables.pull_requests)} \ {NoLogin}
PeriodPRsOf(a) ==
    Cardinality({i \in CreatedInPeriod(tables.pull_requests) :
                    tables.pull_requests[i].author = a})

\* the smaller of two numbers
Min(a, b) == IF a <= b THEN a ELSE b

\* C23: developer_activity returns as top_contributors the (at most five)
\* authors with the highest commit counts among the commits of the period, and
\* as top_pr_contributors the (at most five) authors with the most pull
\* requests of the period: no author left out has more than an author listed.
C23_TopContributorsByCount ==
    \A k \in CallsOf("developer_activity") :
        LET r == calls[k].result
        IN  /\ "commit_activity" \in DOMAIN r =>
                LET top == DOMAIN r.commit_activity.top_contributors
                IN  /\ top \subseteq PeriodCommitAuthors
                    /\ Cardinality(top) = Min(5, Cardinality(PeriodCommitAuthors))
                    /\ \A a \in top, b \in PeriodCommitAuthors \ top :
                          PeriodCommitsOf(b) <= PeriodCommitsOf(a)
            /\ "pr_activity" \in DOMAIN r =>
                LET top == DOMAIN r.pr_activity.top_pr_contributors
                IN  /\ top \subseteq PeriodPRAuthors
                    /\ Cardinality(top) = Min(5, Cardinality(PeriodPRAuthors))
                    /\ \A a \in top, b \in PeriodPRAuthors \ top :
                          PeriodPRsOf(b) <= PeriodPRsOf(a)

\* the calendar week of a moment: the weeks elapsed since the first one
CalendarWeek(t) == (t \div TicksPerDay) \div 7

\* C24: code_quality_trends buckets pull requests by ISO calendar week of
\* creation: two pull requests fall into the same weekly bucket exactly when
\* they were created in the same calendar week, every pull request belongs to
\* one bucket, and there are as many buckets as weeks with a pull request.
C24_BucketsAreCalendarWeeks ==
    \A k \in CallsOf("code_quality_trends") :
        LET r == calls[k].result
            prs == instance.pull_requests
        IN  prs # <<>> =>
              /\ "weekly_trends" \in DOMAIN r
              /\ \A i \in 1..Len(prs) : IntKey(prs[i].week) \in DOMAIN r.weekly_trends
              /\ \A i, j \in 1..Len(prs) :
                    (prs[i].week = prs[j].week)
                        <=> (CalendarWeek(prs[i].created_at) = CalendarWeek(prs[j].created_at))
              /\ Cardinality(DOMAIN r.weekly_trends)
                    = Cardinality({CalendarWeek(prs[i].created_at) : i \in 1..Len(prs)})


\* C25: persisting a report of the calculators as JSON and loading the file
\* again gives back the report: the same structure, keys and values
C25_RoundTripReproducesReport ==
    \A k \in 2..Len(calls) :
        calls[k].method = "load_metrics_from_file" => calls[k].result = calls[k - 1].result


\* C26: no issue that is itself a pull request is among the issues
\* collect_issues returns, whatever the window, the state and the user filter
PullRequestIssueIds == {tables.issues[i].id : i \in {j \in 1..Len(tables.issues) : tables.issues[j].pull_request}}
C26_NoPullRequestAmongIssues ==
    \A k \in 1..Len(calls) :
        calls[k].method = "collect_issues" =>
            \A i \in 1..Len(calls[k].result) : calls[k].result[i].id \notin PullRequestIssueIds

\* a call with a user filter and a state whose window holds a pull request
\* listed as an issue and an issue proper, which is returned
C26_PullRequestIssueInWindow ==
    /\ Len(calls) = 1
    /\ calls[1].method = "collect_issues"
    /\ calls[1].user_filter # NoUserFilter
    /\ calls[1].state = "closed"
    /\ Len(calls[1].result) > 0
    /\ \E i \in 1..Len(tables.issues) :
          /\ tables.issues[i].pull_request
          /\ tables.issues[i].state = "closed"
          /\ tables.issues[i].user \in calls[1].user_filter
          /\ InPeriod(tables.issues[i].updated_at, calls[1].since, calls[1].until)


\* what the data source yielded to a collector call, the timestamp the call
\* selects on and the login its user filter looks at
YieldedTo(call) ==
    IF call.method = "collect_pull_requests" THEN OfState(tables.pull_requests, call.state)
    ELSE IF call.method = "collect_issues" THEN OfState(tables.issues, call.state)
    ELSE tables.deployments
StampOf(call) == IF call.method = "collect_deployments" THEN "created_at" ELSE "updated_at"
LoginOf(call) == IF call.method = "collect_deployments" THEN "creator" ELSE "user"

\* the records a call is to return: the yielded ones inside [since, until]
\* that pass the user filter, pull requests listed as issues left aside
InWindowIds(call) ==
    {o.id : o \in {r \in Range(YieldedTo(call)) :
                      /\ r[StampOf(call)] >= call.since
                      /\ r[StampOf(call)] <= call.until
                      /\ call.user_filter # NoUserFilter => r[LoginOf(call)] \in call.user_filter
                      /\ call.method = "collect_issues" => ~r.pull_request}}
ReturnedIds(call) == {call.result[i].id : i \in 1..Len(call.result)}

Descending(raw, stamp) ==
    \A i, j \in 1..Len(raw) : i < j => raw[i][stamp] >= raw[j][stamp]

ChartsDue == Range(create_static_charts(xcom_pull("store_metrics", "all_metrics")))
ChartsWritten == {c[1] : c \in charts}

\* C29: a failure while generating the dashboard charts never fails the
\* run: once generate_dashboard_data has run its task has succeeded, and the
\* report files are as store_metrics wrote them
C29_ChartFailureNotFatal ==
    "generate_dashboard_data" \in Range(started) =>
        /\ ts["generate_dashboard_data"] = "success"
        /\ \A t \in Tasks : ts[t] # "failed"
        /\ latest_file = json_dump(xcom_pull("store_metrics", "all_metrics"))
        /\ dated_files[dated_filename(latest_file.timestamp)] = latest_file

\* generate_dashboard_data has run and a chart is missing
C29_ChartMissing ==
    /\ "generate_dashboard_data" \in Range(started)
    /\ ChartsDue \ ChartsWritten # {}
    /\ RunOver


\* C30: within one result of get_all_dora_metrics the deployment count of
\* deployment_frequency equals the deployment count of change_failure_rate
C30_OneDeploymentCount ==
    \A k \in 1..Len(calls) :
        (calls[k].method = "get_all_dora_metrics" /\ ~IsRaise(calls[k].result)) =>
            calls[k].result.deployment_frequency.total_deployments =
                calls[k].result.change_failure_rate.total_deployments


\* the rows of a table have pairwise different values in the column key
OneRowPer(df, key) ==
    \A i, j \in 1..Len(df) : i # j => df[i][key] # df[j][key]

====
